---- MODULE Spec2Model ----
(***************************************************************************)
(* Group-structured collective communication (general/communication.hpp):  *)
(* GroupTopology, GroupCommunicator and VarMessage<Tag>.                    *)
(*                                                                         *)
(* The header under src/ holds the class declarations, the inline queries  *)
(* of GroupTopology, the fused Bcast/Reduce wrappers and the whole of      *)
(* VarMessage.  The bodies of GroupTopology::Create, ProcToLProc and of    *)
(* the GroupCommunicator Begin/End/pack operations live in a translation   *)
(* unit that is not part of src/; they are modelled from the design        *)
(* document and are marked as such in the map of the model.                *)
(***************************************************************************)
EXTENDS Integers, Sequences, FiniteSets, TLC

(***************************************************************************)
(* Bounds                                                                  *)
(***************************************************************************)
\* number of MPI ranks of the communicator used by the topology
NP == 3
\* largest number of shared items the caller describes to Create
MaxItems == 2

\* number of remote ranks that exchange VarMessages with the local rank
NPeers == 2
\* longest VarMessage payload, in bytes
MaxLen == 1
\* messages the remote ranks send to the local rank, in total
MaxRemoteSends == 2
\* sends the local rank issues, in total
MaxIsends == 2

\* collectives each rank performs on its GroupCommunicator
MaxRounds == 2

Procs == 0 .. (NP - 1)
ItemSets == (SUBSET Procs) \ {{}}

(***************************************************************************)
(* Generic helpers on sequences                                            *)
(***************************************************************************)
RECURSIVE SortedSeq(_)
\* IntegerSet keeps its members as a sorted array
SortedSeq(S) ==
    IF S = {} THEN << >>
    ELSE LET m == CHOOSE x \in S : \A y \in S : x <= y
         IN  << m >> \o SortedSeq(S \ {m})

RECURSIVE Flatten(_)
Flatten(rows) ==
    IF rows = << >> THEN << >> ELSE Head(rows) \o Flatten(Tail(rows))

RECURSIVE FirstAppearance(_, _)
\* the entries of s in order of first appearance, after those of acc
FirstAppearance(acc, s) ==
    IF s = << >> THEN acc
    ELSE IF \E i \in 1..Len(acc) : acc[i] = Head(s)
         THEN FirstAppearance(acc, Tail(s))
         ELSE FirstAppearance(Append(acc, Head(s)), Tail(s))

IndexOf(s, x) == CHOOSE i \in 1..Len(s) : s[i] = x

Reverse(s) == [i \in 1..Len(s) |-> s[Len(s) + 1 - i]]

RECURSIVE SelectFrom(_, _)
\* the subsequence of the sets of s that contain p
SelectFrom(s, p) ==
    IF s = << >> THEN << >>
    ELSE IF p \in Head(s) THEN << Head(s) >> \o SelectFrom(Tail(s), p)
         ELSE SelectFrom(Tail(s), p)

(***************************************************************************)
(* State                                                                   *)
(***************************************************************************)
VARIABLES
    \* ---- the caller's input to GroupTopology::Create ----
    items,              \* one membership set per shared item, in global order
    revOdd,             \* odd ranks visit their items in the reverse order
    \* ---- GroupTopology, one object per rank ----
    tpc,                \* position of each rank in Create
    groups,             \* the ListOfIntegerSets handed to Create
    group_lproc,        \* group -> neighbor ids
    groupmaster_lproc,  \* group -> neighbor id of the master
    lproc_proc,         \* neighbor id -> rank
    group_mgroup,       \* group -> group number in the master
    recv_counter,       \* messages Create still waits for
    tchan,              \* messages of Create in flight, per (source, dest)
    terror              \* Create reported an error on this rank

topoVars == << items, revOdd, tpc, groups, group_lproc, groupmaster_lproc,
               lproc_proc, group_mgroup, recv_counter, tchan, terror >>

VARIABLES
    \* ---- the build ----
    MFEM_DEBUG,         \* the library was compiled with MFEM_DEBUG defined
    \* ---- VarMessage<Tag>: a rank-to-message map of the local rank ----
    rank_msg,           \* rank -> [data, send_request]
    vpc,                \* what the local rank is executing
    wait_left,          \* WaitAllSent: the entries not yet visited
    recv_left,          \* RecvAll: the loop counter
    \* ---- the transport, for messages of class Tag ----
    inbox,              \* source rank -> payloads pending at the local rank, in order
    inflight,           \* send requests of the local rank the transport holds,
                        \* each with the bytes of the buffer when it was issued
    next_req,           \* requests issued so far
    \* ---- history ----
    last,               \* the last call of the local rank and its outcome
    recv_steps,         \* RecvAll: the Probe+Recv passes of the current call
    recv_base,          \* RecvAll: messages of each source consumed before the call
    sent_count,         \* source rank -> messages it has sent so far
    unwaited,           \* entries with an Isend not yet followed by WaitAllSent
    reset,              \* entries on which Clear() was called since their Isend
    orphans             \* requests whose handle was dropped without a wait

vmVars == << MFEM_DEBUG, rank_msg, vpc, wait_left, recv_left, inbox, inflight,
             next_req, last, recv_steps, recv_base, sent_count, unwaited, reset,
             orphans >>

VARIABLES
    \* ---- the collective the ranks execute on their GroupCommunicator ----
    mode,               \* byGroup or byNeighbor, fixed at construction
    kind,               \* the collective every rank calls: "bcast" or "reduce"
    layout,             \* the layout of the array handed to it
    redop,              \* the operator every rank hands to ReduceEnd
    \* ---- GroupCommunicator, one object per rank ----
    group_ldof,         \* group -> local items, in buffer order
    group_ltdof,        \* group -> true items, for the groups the rank masters
    group_buf,          \* the shared buffer
    requests,           \* outstanding requests, each with its marker
    comm_lock,          \* 0 - no lock, 1 - locked for Bcast, 2 - locked for Reduce
    cfatal,             \* the rank has stopped in a fatal error
    ldata,              \* the caller's array
    cnet,               \* (source, dest) -> messages in flight, in order
    alive,              \* the object has not been destroyed
    cpc,                \* the fused wrapper the rank is in and the calls it still makes
    ldata2,             \* a second array of the caller, to unpack into
    pbuf,               \* a buffer of the caller, to pack into
    \* ---- history ----
    started,            \* operations begun on the object
    ended,              \* operations completed on the object
    begin_log,          \* the array at each Begin
    applied,            \* (group, source rank) pairs unpacked or combined by the last End
    clast               \* the last call on the object and its outcome

commVars == << mode, kind, layout, redop, group_ldof, group_ltdof, group_buf, requests,
               comm_lock, cfatal, ldata, cnet, alive, cpc, ldata2, pbuf, started, ended,
               begin_log, applied, clast >>

vars == << topoVars, vmVars, commVars >>

NoCall == [op |-> "none"]

\* the state of each component in the specifications that do not use it
TopoIdle ==
    /\ items = << >>
    /\ revOdd = FALSE
    /\ tpc = << >>
    /\ groups = << >>
    /\ group_lproc = << >>
    /\ groupmaster_lproc = << >>
    /\ lproc_proc = << >>
    /\ group_mgroup = << >>
    /\ recv_counter = << >>
    /\ tchan = << >>
    /\ terror = << >>

VMIdle ==
    /\ MFEM_DEBUG = FALSE
    /\ rank_msg = << >>
    /\ vpc = "idle"
    /\ wait_left = << >>
    /\ recv_left = 0
    /\ recv_steps = << >>
    /\ recv_base = << >>
    /\ last = NoCall
    /\ inbox = << >>
    /\ sent_count = << >>
    /\ inflight = {}
    /\ next_req = 0
    /\ unwaited = {}
    /\ reset = {}
    /\ orphans = {}

CommIdle ==
    /\ mode = "byNeighbor"
    /\ kind = "none"
    /\ layout = 0
    /\ redop = "none"
    /\ group_ldof = << >>
    /\ group_ltdof = << >>
    /\ alive = << >>
    /\ cpc = << >>
    /\ ldata2 = << >>
    /\ pbuf = << >>
    /\ group_buf = << >>
    /\ requests = << >>
    /\ comm_lock = << >>
    /\ cfatal = << >>
    /\ ldata = << >>
    /\ cnet = << >>
    /\ started = << >>
    /\ ended = << >>
    /\ begin_log = << >>
    /\ applied = << >>
    /\ clast = << >>

(***************************************************************************)
(* ListOfIntegerSets                                                       *)
(***************************************************************************)
InsertUnlessCovered(list, s) ==
    IF \E i \in 1..Len(list) : s \subseteq list[i] THEN list ELSE Append(list, s)
\* ListOfIntegerSets::Insert: a set already in the list is not added again
Insert(list, s) ==
    IF \E i \in 1..Len(list) : list[i] = s THEN list ELSE Append(list, s)

\* ListOfIntegerSets::Lookup: the index of the set, -1 when absent
Lookup(list, s) ==
    IF \E i \in 1..Len(list) : list[i] = s
    THEN (CHOOSE i \in 1..Len(list) : list[i] = s) - 1
    ELSE -1

\* IntegerSet::PickElementInSet: the first (lowest) member
PickElementInSet(s) == SortedSeq(s)[1]

RECURSIVE InsertAll(_, _)
InsertAll(list, ss) ==
    IF ss = << >> THEN list ELSE InsertAll(Insert(list, Head(ss)), Tail(ss))

\* the membership sets rank p observes, in the order it visits them
LocalItems(its, rev, p) ==
    LET mine == SelectFrom(its, p)
    IN  IF rev /\ p % 2 = 1 THEN Reverse(mine) ELSE mine

\* the caller's list: the local group first, then one Insert per item
CallerGroups(its, rev, p) == InsertAll(<< {p} >>, LocalItems(its, rev, p))

(***************************************************************************)
(* GroupTopology                                                           *)
(***************************************************************************)
\* groups.AsTable(group_lproc): one row of ranks per group
AsTable(list) == [i \in 1..Len(list) |-> SortedSeq(list[i])]

LProcProcTable(list) == Flatten(AsTable(list))
\* ProcToLProc: neighbor ids in order of first appearance in the table
LProcProc(list) == FirstAppearance(<< >>, Flatten(AsTable(list)))
ProcLProc(list, r) == IndexOf(LProcProc(list), r) - 1
GroupLProc(list) ==
    [i \in 1..Len(list) |->
        [k \in 1..Len(AsTable(list)[i]) |-> ProcLProc(list, AsTable(list)[i][k])]]
GroupMasterLProc(list) ==
    [i \in 1..Len(list) |-> ProcLProc(list, PickElementInSet(list[i]))]

\* ---- inline queries of the header (group ids and neighbor ids are 0-based)
NGroups(p) == Len(group_lproc[p])
GetNumNeighbors(p) == Len(lproc_proc[p])
GetNeighborRank(p, i) == lproc_proc[p][i + 1]
GetGroupMaster(p, g) == groupmaster_lproc[p][g + 1]
IAmMasterNonNeg(p, g) == groupmaster_lproc[p][g + 1] >= 0
IAmMaster(p, g) == groupmaster_lproc[p][g + 1] = 0
GetGroupMasterRankSelf(p, g) == lproc_proc[p][1]
GetGroupMasterRank(p, g) == lproc_proc[p][groupmaster_lproc[p][g + 1] + 1]
GetGroupMasterGroupLocal(p, g) == g
GetGroupMasterGroup(p, g) == group_mgroup[p][g + 1]
GetGroupSizeAsNGroups(p, g) == Len(group_lproc[p])
GetGroupSize(p, g) == Len(group_lproc[p][g + 1])
GetGroup(p, g) == group_lproc[p][g + 1]
MyRank(p) == p

\* the ranks of group g of rank p
GroupRanks(p, g) == {GetNeighborRank(p, GetGroup(p, g)[k]) : k \in 1..GetGroupSize(p, g)}

(***************************************************************************)
(* VarMessage<Tag>                                                         *)
(*                                                                         *)
(* One rank (the local rank) owns a rank-to-message map; the other ranks   *)
(* (Peers) send it messages of class Tag, and the transport completes the  *)
(* sends it issues.                                                        *)
(***************************************************************************)
Peers == 1 .. NPeers
Lens == 0 .. MaxLen
MPI_REQUEST_NULL == 0
\* the byte a resize pads with, and the byte the local rank writes
PadByte == 0
LocalByte == NPeers + 1
\* a payload of n bytes written by rank r: every byte names its writer
Payload(r, n) == [i \in 1..n |-> r]

\* VarMessage(): no payload, no pending send
NewVarMessage == [data |-> << >>, send_request |-> MPI_REQUEST_NULL]

\* MFEM_ASSERT(cond, msg): a failed assertion is a fatal error
MFEM_ASSERT(cond) == cond

\* std::string::resize: truncate, or pad with zero bytes
Resize(d, n) == [i \in 1..n |-> IF i <= Len(d) THEN d[i] ELSE PadByte]

\* Clear(): data.clear(); send_request = MPI_REQUEST_NULL
Clear(m) == [data |-> << >>, send_request |-> MPI_REQUEST_NULL]

\* ~VarMessage(): the destructor's assertion
DtorOk(m) == MFEM_ASSERT(m.send_request = MPI_REQUEST_NULL)

\* Isend(rank, comm): Encode (a no-op hook), then MPI_Isend of the payload;
\* the new request is stored in send_request whatever it held before
IsendMsg(m, req) == [m EXCEPT !.send_request = req]

Keys == DOMAIN rank_msg
Pending(k) == rank_msg[k].send_request # MPI_REQUEST_NULL
ReqDone(id) == \E r \in inflight : r.id = id /\ r.done
\* the requests whose handle the call below overwrites or resets unwaited
Dropped(ks) == {rank_msg[k].send_request : k \in ks} \ {MPI_REQUEST_NULL}

InitVM ==
    /\ TopoIdle
    /\ CommIdle
    /\ MFEM_DEBUG \in BOOLEAN
    /\ \E ks \in SUBSET Peers : rank_msg = [k \in ks |-> NewVarMessage]
    /\ vpc = "idle"
    /\ wait_left = << >>
    /\ recv_left = 0
    /\ recv_steps = << >>
    /\ recv_base = [r \in Peers |-> 0]
    /\ last = NoCall
    /\ inbox = [r \in Peers |-> << >>]
    /\ sent_count = [r \in Peers |-> 0]
    /\ inflight = {}
    /\ next_req = 0
    /\ unwaited = {}
    /\ reset = {}
    /\ orphans = {}

recvSide == << recv_left, recv_steps, recv_base, inbox, sent_count >>
sendSide == << wait_left, inflight, next_req, unwaited, reset, orphans >>

\* ---- the caller writes the public payload field
Fill(k, n) ==
    /\ vpc = "idle"
    /\ k \in Keys
    /\ rank_msg[k].data # Payload(LocalByte, n)
    /\ rank_msg' = [rank_msg EXCEPT ![k].data = Payload(LocalByte, n)]
    /\ last' = [op |-> "Fill", key |-> k]
    /\ UNCHANGED << topoVars, commVars, MFEM_DEBUG, vpc, recvSide, sendSide >>

\* ---- Isend(rank, comm) on the entry of rank k
Isend(k) ==
    /\ vpc = "idle"
    /\ k \in Keys
    /\ next_req < MaxIsends
    /\ LET id == next_req + 1
       IN  /\ rank_msg' = [rank_msg EXCEPT ![k] = IsendMsg(@, id)]
           /\ inflight' = inflight \cup {[id |-> id, dest |-> k, done |-> FALSE,
                                            data |-> rank_msg[k].data]}
           /\ next_req' = id
           /\ unwaited' = unwaited \cup {k}
           /\ reset' = reset \ {k}
           /\ orphans' = orphans \cup (Dropped({k}) \ {rank_msg'[k].send_request})
           /\ last' = [op |-> "Isend", key |-> k, req |-> id,
                       old_req |-> rank_msg[k].send_request]
    /\ UNCHANGED << topoVars, commVars, MFEM_DEBUG, vpc, wait_left, recvSide >>

\* ---- IsendAll(rank_msg, comm): Isend on every entry, in key order
RECURSIVE IsendAllMap(_, _, _)
IsendAllMap(map, ks, id) ==
    IF ks = << >> THEN map
    ELSE IsendAllMap([map EXCEPT ![Head(ks)] = IsendMsg(@, id + 1)], Tail(ks), id + 1)

IsendAll ==
    /\ vpc = "idle"
    /\ Keys # {}
    /\ next_req + Cardinality(Keys) <= MaxIsends
    /\ LET ks == SortedSeq(Keys)
       IN  /\ rank_msg' = IsendAllMap(rank_msg, ks, next_req)
           /\ inflight' = inflight \cup
                 {[id |-> next_req + i, dest |-> ks[i], done |-> FALSE,
                   data |-> rank_msg[ks[i]].data] : i \in 1..Len(ks)}
           /\ next_req' = next_req + Len(ks)
           /\ unwaited' = unwaited \cup Keys
           /\ reset' = reset \ Keys
           /\ orphans' = orphans \cup
                 (Dropped(Keys) \ {rank_msg'[k].send_request : k \in Keys})
           /\ last' = [op |-> "IsendAll", old_reqs |-> Dropped(Keys)]
    /\ UNCHANGED << topoVars, commVars, MFEM_DEBUG, vpc, wait_left, recvSide >>

\* ---- the transport completes a send of the local rank
SendCompletes(id) ==
    /\ \E r \in inflight : r.id = id /\ ~r.done
    /\ inflight' = {IF r.id = id THEN [r EXCEPT !.done = TRUE] ELSE r : r \in inflight}
    /\ UNCHANGED << topoVars, commVars, MFEM_DEBUG, rank_msg, vpc, last, wait_left,
                    next_req, unwaited, reset, orphans, recvSide >>

\* ---- WaitAllSent(rank_msg): MPI_Wait then Clear, entry by entry
WaitAllSentBegin ==
    /\ vpc = "idle"
    /\ IF Keys = {}
       THEN /\ last' = [op |-> "WaitAllSent", status |-> "returned"]
            /\ UNCHANGED << vpc, wait_left >>
       ELSE /\ vpc' = "waitall"
            /\ wait_left' = SortedSeq(Keys)
            /\ last' = [op |-> "WaitAllSent", status |-> "waiting"]
    /\ UNCHANGED << topoVars, commVars, MFEM_DEBUG, rank_msg, inflight, next_req,
                    unwaited, reset, orphans, recvSide >>

\* MPI_Wait returns at once on a null request, else when the send is complete,
\* and then frees the request
WaitAllSentStep ==
    /\ vpc = "waitall"
    /\ LET k == Head(wait_left)
           id == rank_msg[k].send_request
       IN  /\ id = MPI_REQUEST_NULL \/ ReqDone(id)
           /\ inflight' = {r \in inflight : r.id # id}
           /\ rank_msg' = [rank_msg EXCEPT ![k] = Clear(@)]
           /\ orphans' = orphans \cup
                 ({rank_msg'[k].send_request} \ {MPI_REQUEST_NULL, id})
           /\ unwaited' = unwaited \ {k}
           /\ reset' = reset \ {k}
           /\ wait_left' = Tail(wait_left)
           /\ IF Tail(wait_left) = << >>
              THEN /\ vpc' = "idle"
                   /\ last' = [op |-> "WaitAllSent", status |-> "returned"]
              ELSE UNCHANGED << vpc, last >>
    /\ UNCHANGED << topoVars, commVars, MFEM_DEBUG, next_req, recvSide >>

\* ---- Clear() called by the user
ClearCall(k) ==
    /\ vpc = "idle"
    /\ k \in Keys
    /\ rank_msg[k] # NewVarMessage
    /\ rank_msg' = [rank_msg EXCEPT ![k] = Clear(@)]
    /\ orphans' = orphans \cup (Dropped({k}) \ {rank_msg'[k].send_request})
    /\ reset' = IF k \in unwaited THEN reset \cup {k} ELSE reset
    /\ last' = [op |-> "Clear", key |-> k]
    /\ UNCHANGED << topoVars, commVars, MFEM_DEBUG, vpc, wait_left, inflight, next_req,
                    unwaited, recvSide >>

\* ---- ~VarMessage() of the entry of rank k
Destroy(k) ==
    /\ vpc = "idle"
    /\ k \in Keys
    /\ last' = [op |-> "Destroy", key |-> k,
                status |-> IF DtorOk(rank_msg[k]) THEN "ok" ELSE "fatal",
                pending |-> Pending(k),
                unwaited |-> k \in unwaited,
                reset |-> k \in reset]
    /\ IF DtorOk(rank_msg[k])
       THEN /\ rank_msg' = [j \in Keys \ {k} |-> rank_msg[j]]
            /\ orphans' = orphans \cup Dropped({k})
            /\ unwaited' = unwaited \ {k}
            /\ reset' = reset \ {k}
            /\ UNCHANGED vpc
       ELSE /\ vpc' = "fatal"
            /\ UNCHANGED << rank_msg, orphans, unwaited, reset >>
    /\ UNCHANGED << topoVars, commVars, MFEM_DEBUG, wait_left, inflight, next_req, recvSide >>

\* ---- a remote rank sends a message of this class to the local rank
TotalSent == LET RECURSIVE Sum(_)
                 Sum(S) == IF S = {} THEN 0
                           ELSE LET r == CHOOSE x \in S : TRUE
                                IN  sent_count[r] + Sum(S \ {r})
             IN  Sum(Peers)

RemoteSend(r, n) ==
    /\ vpc # "fatal"
    /\ TotalSent < MaxRemoteSends
    /\ inbox' = [inbox EXCEPT ![r] = Append(@, Payload(r, n))]
    /\ sent_count' = [sent_count EXCEPT ![r] = @ + 1]
    /\ UNCHANGED << topoVars, commVars, MFEM_DEBUG, rank_msg, vpc, last, recv_left, recv_steps,
                    recv_base, sendSide >>

\* MPI_Get_count on the status of a probe that matched a message from r: the
\* probe matches the oldest pending message of the source
ProbedSizeNewest(r) == Len(inbox[r][Len(inbox[r])])
ProbedSize(r) == Len(Head(inbox[r]))

\* ---- Probe(rank, size, comm): blocks until a message of the class is
\* pending, reports its source and byte count, and leaves it in place
Probe(r) ==
    /\ vpc = "idle"
    /\ inbox[r] # << >>
    /\ last' = [op |-> "Probe", flag |-> TRUE, rank |-> r, size |-> ProbedSize(r)]
    /\ UNCHANGED << topoVars, commVars, MFEM_DEBUG, rank_msg, vpc, recvSide, sendSide >>

\* ---- IProbe(rank, size, comm): false at once when nothing is pending
IProbeNone ==
    /\ vpc = "idle"
    /\ \A r \in Peers : inbox[r] = << >>
    /\ last' = [op |-> "IProbe", flag |-> FALSE]
    /\ UNCHANGED << topoVars, commVars, MFEM_DEBUG, rank_msg, vpc, recvSide, sendSide >>

IProbeSome(r) ==
    /\ vpc = "idle"
    /\ inbox[r] # << >>
    /\ last' = [op |-> "IProbe", flag |-> TRUE, rank |-> r, size |-> ProbedSize(r)]
    /\ UNCHANGED << topoVars, commVars, MFEM_DEBUG, rank_msg, vpc, recvSide, sendSide >>

\* MPI_Recv into a buffer d of a pending message pl that fits: the bytes
\* received overwrite the front of the buffer
MpiRecvInto(d, pl) == [i \in 1..Len(d) |-> IF i <= Len(pl) THEN pl[i] ELSE d[i]]

\* Recv(rank, size, comm) on message m when pl is the first pending message
\* from rank: the assertion, the resize, the receive (a message longer than
\* the buffer is an MPI truncation error), the count check of a debug build,
\* the decode hook.  decoded lists the payloads the hook was called on.
RecvOutcomeNoCheck(m, pl, size, debug) ==
    IF ~MFEM_ASSERT(size >= 0)
    THEN [status |-> "fatal_assert", msg |-> m, count |-> 0, decoded |-> << >>,
          consumed |-> FALSE]
    ELSE IF Len(pl) > size
    THEN [status |-> "fatal_mpi", msg |-> [m EXCEPT !.data = Resize(m.data, size)],
          count |-> size, decoded |-> << >>, consumed |-> TRUE]
    ELSE [status |-> "ok",
          msg |-> [m EXCEPT !.data = MpiRecvInto(Resize(m.data, size), pl)],
          count |-> Len(pl),
          decoded |-> << MpiRecvInto(Resize(m.data, size), pl) >>,
          consumed |-> TRUE]
RecvOutcome(m, pl, size, debug) ==
    IF ~MFEM_ASSERT(size >= 0)
    THEN [status |-> "fatal_assert", msg |-> m, count |-> 0, decoded |-> << >>,
          consumed |-> FALSE]
    ELSE IF Len(pl) > size
    THEN [status |-> "fatal_mpi", msg |-> [m EXCEPT !.data = Resize(m.data, size)],
          count |-> size, decoded |-> << >>, consumed |-> TRUE]
    ELSE IF debug /\ Len(pl) # size
    THEN [status |-> "fatal_verify",
          msg |-> [m EXCEPT !.data = MpiRecvInto(Resize(m.data, size), pl)],
          count |-> Len(pl), decoded |-> << >>, consumed |-> TRUE]
    ELSE [status |-> "ok",
          msg |-> [m EXCEPT !.data = MpiRecvInto(Resize(m.data, size), pl)],
          count |-> Len(pl),
          decoded |-> << MpiRecvInto(Resize(m.data, size), pl) >>,
          consumed |-> TRUE]

RecvSizes == (-1) .. MaxLen

\* the last call was a probe that reported (r, size)
AfterProbe(r, size) ==
    /\ last.op \in {"Probe", "IProbe"}
    /\ last.flag
    /\ last.rank = r
    /\ last.size = size

\* RecvDrop(rank, size, comm) on message m when pl is the first pending
\* message from rank: the resize, the receive (a truncation error stops the
\* call before the second resize), then data.resize(0); no decode
RecvDropOutcome(m, pl, size) ==
    IF Len(pl) > size
    THEN [status |-> "fatal_mpi", msg |-> [m EXCEPT !.data = Resize(m.data, size)],
          count |-> size, decoded |-> << >>, consumed |-> TRUE]
    ELSE [status |-> "ok", msg |-> [m EXCEPT !.data = << >>],
          count |-> Len(pl), decoded |-> << >>, consumed |-> TRUE]

\* MPI_Recv returns in a call op on the entry of rank k: the rest of the call
RecvReturn(op, k, r, size, ap) ==
    LET pl == Head(inbox[r])
        out == IF op = "Recv" THEN RecvOutcome(rank_msg[k], pl, size, MFEM_DEBUG)
               ELSE RecvDropOutcome(rank_msg[k], pl, size)
    IN  /\ rank_msg' = [rank_msg EXCEPT ![k] = out.msg]
        /\ inbox' = [inbox EXCEPT ![r] = Tail(@)]
        /\ vpc' = IF out.status = "ok" THEN "idle" ELSE "fatal"
        /\ last' = [op |-> op, key |-> k, rank |-> r, size |-> size,
                    status |-> out.status, count |-> out.count,
                    decoded |-> out.decoded, payload |-> pl,
                    after_probe |-> ap]

\* the call has resized data and waits in MPI_Recv for a message from r
RecvBlock(op, k, r, size) ==
    /\ rank_msg' = [rank_msg EXCEPT ![k].data = Resize(@, size)]
    /\ vpc' = "recv"
    /\ last' = [op |-> op, key |-> k, rank |-> r, size |-> size,
                status |-> "blocked", count |-> 0, decoded |-> << >>,
                payload |-> << >>, after_probe |-> AfterProbe(r, size)]
    /\ UNCHANGED inbox

\* ---- Recv(rank, size, comm) on the entry of rank k: the assertion, the
\* resize, then the blocking receive
RecvCall(k, r, size) ==
    /\ vpc = "idle"
    /\ k \in Keys
    /\ IF ~MFEM_ASSERT(size >= 0)
       THEN LET out == RecvOutcome(rank_msg[k], << >>, size, MFEM_DEBUG)
            IN  /\ vpc' = "fatal"
                /\ last' = [op |-> "Recv", key |-> k, rank |-> r, size |-> size,
                            status |-> out.status, count |-> out.count,
                            decoded |-> out.decoded, payload |-> << >>,
                            after_probe |-> AfterProbe(r, size)]
                /\ UNCHANGED << rank_msg, inbox >>
       ELSE IF inbox[r] = << >>
       THEN RecvBlock("Recv", k, r, size)
       ELSE RecvReturn("Recv", k, r, size, AfterProbe(r, size))
    /\ UNCHANGED << topoVars, commVars, MFEM_DEBUG, recv_left, recv_steps, recv_base, sent_count, sendSide >>

\* ---- RecvDrop(rank, size, comm): the same receive without the assertion,
\* then data.resize(0)
RecvDrop(k, r, size) ==
    /\ vpc = "idle"
    /\ k \in Keys
    /\ IF inbox[r] = << >>
       THEN RecvBlock("RecvDrop", k, r, size)
       ELSE RecvReturn("RecvDrop", k, r, size, AfterProbe(r, size))
    /\ UNCHANGED << topoVars, commVars, MFEM_DEBUG, recv_left, recv_steps, recv_base, sent_count, sendSide >>

\* ---- a message from the awaited rank arrives at a call blocked in MPI_Recv
RecvArrives ==
    /\ vpc = "recv"
    /\ inbox[last.rank] # << >>
    /\ RecvReturn(last.op, last.key, last.rank, last.size, FALSE)
    /\ UNCHANGED << topoVars, commVars, MFEM_DEBUG, recv_left, recv_steps, recv_base, sent_count, sendSide >>

\* ---- RecvAll(rank_msg, comm)
\* int recv_left = rank_msg.size()
RecvLeftInit(map) == Cardinality(DOMAIN map)

\* rank_msg[rank]: the entry that receives the message probed from rank
RecvAllEntryFirst(map, rank) == CHOOSE k \in DOMAIN map : \A j \in DOMAIN map : k <= j
RecvAllEntry(map, rank) == rank

\* rank_msg.find(rank) != rank_msg.end()
RecvAllFindAny(map, rank) == TRUE
RecvAllFind(map, rank) == rank \in DOMAIN map

\* rank_msg[rank] on a std::map: the entry of the key, default-constructed
\* and inserted when the key is absent
MapAt(map, k) == IF k \in DOMAIN map THEN map[k] ELSE NewVarMessage
MapPut(map, k, m) == [x \in DOMAIN map \cup {k} |-> IF x = k THEN m ELSE map[x]]

RecvAllBegin ==
    /\ vpc = "idle"
    /\ recv_left' = RecvLeftInit(rank_msg)
    /\ recv_steps' = << >>
    /\ recv_base' = [r \in Peers |-> sent_count[r] - Len(inbox[r])]
    /\ IF RecvLeftInit(rank_msg) > 0
       THEN /\ vpc' = "recvall"
            /\ last' = [op |-> "RecvAll", status |-> "receiving"]
       ELSE /\ last' = [op |-> "RecvAll", status |-> "returned"]
            /\ UNCHANGED vpc
    /\ UNCHANGED << topoVars, commVars, MFEM_DEBUG, rank_msg, inbox, sent_count, sendSide >>

\* one pass of the loop: Probe, the assertion on the source, Recv, --recv_left
RecvAllStep(r) ==
    /\ vpc = "recvall"
    /\ recv_left > 0
    /\ inbox[r] # << >>
    /\ LET size == ProbedSize(r)
           k == RecvAllEntry(rank_msg, r)
       IN  IF ~MFEM_ASSERT(RecvAllFind(rank_msg, r))
           THEN /\ vpc' = "fatal"
                /\ last' = [op |-> "RecvAll", status |-> "fatal_assert", rank |-> r]
                /\ UNCHANGED << rank_msg, inbox, recv_left, recv_steps >>
           ELSE LET out == RecvOutcome(MapAt(rank_msg, k), Head(inbox[r]), size, MFEM_DEBUG)
                IN  /\ rank_msg' = MapPut(rank_msg, k, out.msg)
                    /\ inbox' = [inbox EXCEPT ![r] = Tail(@)]
                    /\ recv_left' = recv_left - 1
                    /\ recv_steps' = Append(recv_steps,
                           [rank |-> r, key |-> k, payload |-> Head(inbox[r]),
                            decoded |-> out.decoded])
                    /\ IF recv_left = 1
                       THEN /\ vpc' = "idle"
                            /\ last' = [op |-> "RecvAll", status |-> "returned"]
                       ELSE UNCHANGED << vpc, last >>
    /\ UNCHANGED << topoVars, commVars, MFEM_DEBUG, recv_base, sent_count, sendSide >>

\* VarMessage(const VarMessage &other): the assertion on the copied request
CopyOk(m) == MFEM_ASSERT(m.send_request = MPI_REQUEST_NULL)

\* ---- a copy of the entry of rank k is constructed as a new entry j: it
\* takes the payload and the request of the original, then asserts that the
\* request is null
Copy(k, j) ==
    /\ vpc = "idle"
    /\ k \in Keys
    /\ j \in Peers \ Keys
    /\ LET c == [data |-> rank_msg[k].data, send_request |-> rank_msg[k].send_request]
       IN  /\ last' = [op |-> "Copy", key |-> k, to |-> j,
                       status |-> IF CopyOk(c) THEN "ok" ELSE "fatal",
                       pending |-> Pending(k)]
           /\ IF CopyOk(c)
              THEN /\ rank_msg' = MapPut(rank_msg, j, c)
                   /\ UNCHANGED vpc
              ELSE /\ vpc' = "fatal"
                   /\ UNCHANGED rank_msg
    /\ UNCHANGED << topoVars, commVars, MFEM_DEBUG, recvSide, sendSide >>

\* the sending half of the interface
NextVMSend ==
    \/ \E k \in Peers, n \in Lens : Fill(k, n)
    \/ \E k \in Peers : Isend(k)
    \/ IsendAll
    \/ \E id \in 1..MaxIsends : SendCompletes(id)
    \/ WaitAllSentBegin
    \/ WaitAllSentStep
    \/ \E k \in Peers : ClearCall(k)
    \/ \E k \in Peers : Destroy(k)
    \/ \E k \in Peers, j \in Peers : Copy(k, j)

\* the receiving half of the interface
NextVMRecv ==
    \/ \E r \in Peers, n \in Lens : RemoteSend(r, n)
    \/ \E r \in Peers : Probe(r)
    \/ IProbeNone
    \/ \E r \in Peers : IProbeSome(r)
    \/ \E k \in Peers, r \in Peers, n \in RecvSizes : RecvCall(k, r, n)
    \/ \E k \in Peers, r \in Peers, n \in Lens : RecvDrop(k, r, n)
    \/ RecvArrives
    \/ RecvAllBegin
    \/ \E r \in Peers : RecvAllStep(r)

SpecVMSend == InitVM /\ [][NextVMSend]_vars
SpecVMRecv == InitVM /\ [][NextVMRecv]_vars
\* the loop of RecvAll runs on: a pending message is eventually probed
SpecVMRecvFair ==
    SpecVMRecv /\ WF_vars(\E r \in Peers : RecvAllStep(r))

(***************************************************************************)
(* Claims about VarMessage                                                 *)
(***************************************************************************)
\* the sends issued from the entry of rank k that the transport has not
\* completed
SendsInFlight(k) == {r \in inflight : r.dest = k /\ ~r.done}

WaitAllSentReturned == last.op = "WaitAllSent" /\ last.status = "returned"

\* C7: destroying a message on which Isend was called and that no WaitAllSent
\* has completed since is fatal; and once WaitAllSent has returned, every
\* message of the map has its send completed and its request and payload
\* cleared, so that its destructor's assertion passes.
C7_DestroyUnwaitedFatal ==
    /\ (last.op = "Destroy" /\ last.unwaited) => last.status = "fatal"
    /\ WaitAllSentReturned =>
          \A k \in Keys :
              /\ SendsInFlight(k) = {}
              /\ rank_msg[k] = NewVarMessage
              /\ DtorOk(rank_msg[k])

\* a message on which Isend was called is destroyed without error, no
\* WaitAllSent having completed since, while its send is still in flight
C7_Witness ==
    /\ last.op = "Destroy"
    /\ last.unwaited
    /\ last.status = "ok"
    /\ SendsInFlight(last.key) # {}

\* C8: Isend on an instance whose previous send is still pending fails
\* fatally; a second send is never issued over a pending request.
C8_IsendPendingFatal ==
    /\ (last.op = "Isend" /\ last.old_req # MPI_REQUEST_NULL) => vpc = "fatal"
    /\ (last.op = "IsendAll" /\ last.old_reqs # {}) => vpc = "fatal"

\* Isend has just returned on an instance whose previous send was pending
C8_Witness ==
    /\ last.op = "Isend"
    /\ last.old_req # MPI_REQUEST_NULL
    /\ \E r \in inflight : r.id = last.old_req /\ ~r.done

\* C19: whenever a message is destroyed or copied without a fatal error, no send issued
\* from it is still in flight at the transport; and while a send is in flight
\* the payload of its message holds the bytes it held at the Isend.
C19_SendBufferProtected ==
    /\ (last.op \in {"Destroy", "Copy"} /\ last.status = "ok") =>
          SendsInFlight(last.key) = {}
    /\ \A k \in Keys : \A r \in SendsInFlight(k) : rank_msg[k].data = r.data

\* a message was destroyed without error after Isend and Clear(), with its
\* send still in flight and its payload cleared
C19_Witness ==
    /\ last.op = "Destroy"
    /\ last.status = "ok"
    /\ last.reset
    /\ vpc = "idle"
    /\ \E r \in SendsInFlight(last.key) : r.data # << >>

RecvChecked ==
    /\ last.count # last.size => last.status # "ok"
    /\ last.status = "ok" =>
          /\ rank_msg[last.key].data = last.payload
          /\ Len(rank_msg[last.key].data) = last.size
          /\ last.decoded = << last.payload >>

\* C9 as stated: Recv is fatal whenever the byte count received differs from
\* size; when it returns the payload is the size bytes sent by the source and
\* the decode hook ran once, on them.
C9_RecvCountChecked == last.op = "Recv" => RecvChecked

\* C9 (amended): that holds of a build with MFEM_DEBUG.  Without MFEM_DEBUG
\* the count is not checked: Recv returns normally for any message of at most
\* size bytes, the payload then holds size bytes of which the first count are
\* the message, and the decode hook is invoked exactly once, after the receive.
C9_RecvDebugChecked ==
    (last.op = "Recv" /\ last.status # "blocked") =>
        /\ MFEM_DEBUG => RecvChecked
        /\ last.status = "ok" =>
              /\ Len(rank_msg[last.key].data) = last.size
              /\ last.count = Len(last.payload)
              /\ last.count <= last.size
              /\ SubSeq(rank_msg[last.key].data, 1, last.count) = last.payload
              /\ last.decoded = << rank_msg[last.key].data >>
        /\ (~MFEM_DEBUG /\ last.size >= 0 /\ Len(last.payload) <= last.size)
              => last.status = "ok"

\* a debug build: Recv received fewer bytes than size and failed
C9_Witness ==
    /\ MFEM_DEBUG
    /\ last.op = "Recv"
    /\ last.status = "fatal_verify"
    /\ last.count < last.size

RecvAllReturned == last.op = "RecvAll" /\ last.status = "returned"

\* the messages the current RecvAll can see: one from each rank of the map,
\* none from any other rank
OnePerKey ==
    \A r \in Peers :
        sent_count[r] - recv_base[r] = IF r \in Keys THEN 1 ELSE 0

\* C10: provided each rank of the map sends one message, RecvAll over a map of
\* N entries returns after N Probe+Recv passes, whatever the arrival order,
\* and then every entry holds, and has decoded, the payload its own rank sent.
C10_RecvAll ==
    /\ [](RecvAllReturned /\ OnePerKey =>
            /\ Len(recv_steps) = Cardinality(Keys)
            /\ \A k \in Keys :
                  /\ Cardinality({i \in 1..Len(recv_steps) : recv_steps[i].key = k}) = 1
                  /\ \E i \in 1..Len(recv_steps) :
                        /\ recv_steps[i].key = k
                        /\ recv_steps[i].rank = k
                        /\ recv_steps[i].payload = Payload(k, Len(recv_steps[i].payload))
                        /\ rank_msg[k].data = recv_steps[i].payload
                        /\ recv_steps[i].decoded = << recv_steps[i].payload >>)
    /\ ((vpc = "recvall" /\ OnePerKey) ~> (RecvAllReturned \/ ~OnePerKey))

\* RecvAll over two entries has returned; the message of the higher rank
\* arrived first
C10_Witness ==
    /\ RecvAllReturned
    /\ OnePerKey
    /\ Cardinality(Keys) = NPeers
    /\ NPeers >= 2
    /\ recv_steps[1].rank > recv_steps[2].rank
    /\ \E k \in Keys : Len(rank_msg[k].data) = MaxLen

EmptyChan == [s \in Procs |-> [d \in Procs |-> << >>]]

InitTopo ==
    /\ VMIdle
    /\ CommIdle
    /\ items \in UNION {[1..n -> ItemSets] : n \in 0..MaxItems}
    /\ revOdd \in BOOLEAN
    /\ tpc = [p \in Procs |-> "start"]
    /\ groups = [p \in Procs |-> << >>]
    /\ group_lproc = [p \in Procs |-> << >>]
    /\ groupmaster_lproc = [p \in Procs |-> << >>]
    /\ lproc_proc = [p \in Procs |-> << >>]
    /\ group_mgroup = [p \in Procs |-> << >>]
    /\ recv_counter = [p \in Procs |-> 0]
    /\ tchan = EmptyChan
    /\ terror = [p \in Procs |-> FALSE]

\* the messages a master sends: (its group number, the ranks of the group)
RECURSIVE SendMGroups(_, _, _, _)
SendMGroups(ch, p, list, i) ==
    IF i > Len(list) THEN ch
    ELSE IF i > 1 /\ PickElementInSet(list[i]) = p
         THEN SendMGroups(
                [ch EXCEPT ![p] =
                    [d \in Procs |->
                        IF d \in list[i] /\ d # p
                        THEN Append(ch[p][d], [mgroup |-> i - 1, set |-> list[i]])
                        ELSE ch[p][d]]],
                p, list, i + 1)
         ELSE SendMGroups(ch, p, list, i + 1)

\* Create, up to the receive loop: the tables, the masters, the sends
CreateBegin(p) ==
    /\ tpc[p] = "start"
    /\ LET list == CallerGroups(items, revOdd, p)
           nrecv == Cardinality({i \in 2..Len(list) : PickElementInSet(list[i]) # p})
       IN  /\ groups' = [groups EXCEPT ![p] = list]
           /\ group_lproc' = [group_lproc EXCEPT ![p] = GroupLProc(list)]
           /\ groupmaster_lproc' = [groupmaster_lproc EXCEPT ![p] = GroupMasterLProc(list)]
           /\ lproc_proc' = [lproc_proc EXCEPT ![p] = LProcProc(list)]
           /\ group_mgroup' = [group_mgroup EXCEPT ![p] =
                  [i \in 1..Len(list) |->
                      IF PickElementInSet(list[i]) = p THEN i - 1 ELSE -1]]
           /\ recv_counter' = [recv_counter EXCEPT ![p] = nrecv]
           /\ tchan' = SendMGroups(tchan, p, list, 1)
           /\ tpc' = [tpc EXCEPT ![p] = IF nrecv = 0 THEN "done" ELSE "recv"]
    /\ UNCHANGED << items, revOdd, terror >>
    /\ UNCHANGED << vmVars, commVars >>

\* the group a received message names, by the ranks it carries
RecvGroup(p, m) == Lookup(groups[p], m.set)

\* one pass of the receive loop: a message from any source
CreateRecv(p, src) ==
    /\ tpc[p] = "recv"
    /\ tchan[src][p] # << >>
    /\ LET m == Head(tchan[src][p])
           g == RecvGroup(p, m)
           ok == /\ g >= 1
                 /\ g < Len(groups[p])
                 /\ lproc_proc[p][groupmaster_lproc[p][g + 1] + 1] = src
       IN  /\ tchan' = [tchan EXCEPT ![src][p] = Tail(@)]
           /\ IF ok
              THEN /\ group_mgroup' = [group_mgroup EXCEPT ![p][g + 1] = m.mgroup]
                   /\ recv_counter' = [recv_counter EXCEPT ![p] = @ - 1]
                   /\ tpc' = [tpc EXCEPT ![p] =
                                 IF recv_counter[p] = 1 THEN "done" ELSE "recv"]
                   /\ UNCHANGED terror
              ELSE /\ terror' = [terror EXCEPT ![p] = TRUE]
                   /\ tpc' = [tpc EXCEPT ![p] = "error"]
                   /\ UNCHANGED << group_mgroup, recv_counter >>
    /\ UNCHANGED << items, revOdd, groups, group_lproc, groupmaster_lproc, lproc_proc >>
    /\ UNCHANGED << vmVars, commVars >>

\* Load(in) on a created topology: the four tables are replaced by those read
\* from the stream, which Save wrote verbatim from the topology of a rank q
\* after its Create
Load(p, q) ==
    /\ tpc[p] = "done"
    /\ tpc[q] = "done"
    /\ group_lproc' = [group_lproc EXCEPT ![p] = group_lproc[q]]
    /\ groupmaster_lproc' = [groupmaster_lproc EXCEPT ![p] = groupmaster_lproc[q]]
    /\ lproc_proc' = [lproc_proc EXCEPT ![p] = lproc_proc[q]]
    /\ group_mgroup' = [group_mgroup EXCEPT ![p] = group_mgroup[q]]
    /\ tpc' = [tpc EXCEPT ![p] = "loaded"]
    /\ UNCHANGED << items, revOdd, groups, recv_counter, tchan, terror >>
    /\ UNCHANGED << vmVars, commVars >>

NextTopo ==
    \/ \E p \in Procs : CreateBegin(p)
    \/ \E p \in Procs, src \in Procs : CreateRecv(p, src)
    \/ \E p \in Procs, q \in Procs : Load(p, q)

SpecTopo == InitTopo /\ [][NextTopo]_vars

CreateDone == \A p \in Procs : tpc[p] = "done"
\* the tables of rank p are those its Create built
ByCreate(p) == tpc[p] \notin {"start", "loaded"}

(***************************************************************************)
(* Claims about GroupTopology                                              *)
(***************************************************************************)
GroupIds(p) == 0 .. (NGroups(p) - 1)

\* the local group of rank q whose ranks are S (-1 when q has none)
GroupOf(q, S) ==
    IF \E h \in GroupIds(q) : GroupRanks(q, h) = S
    THEN CHOOSE h \in GroupIds(q) : GroupRanks(q, h) = S
    ELSE -1

\* C4: once Create has completed everywhere, any two members p, q of a group
\* name the same master rank for it, exactly one member is its master, and
\* both hold, as the group's number in the master, the index the group has in
\* the master's own numbering.
C4_MasterAgreement ==
    CreateDone =>
        \A p \in Procs : \A g \in GroupIds(p) :
            LET S == GroupRanks(p, g)
                m == GetGroupMasterRank(p, g)
            IN  /\ p \in S
                /\ m \in S
                /\ Cardinality({q \in S : GroupOf(q, S) >= 0
                                         /\ IAmMaster(q, GroupOf(q, S))}) = 1
                /\ \A q \in S :
                      LET h == GroupOf(q, S)
                      IN  /\ h >= 0
                          /\ GetGroupMasterRank(q, h) = m
                          /\ GetGroupMasterGroup(q, h) = GetGroupMasterGroup(p, g)
                          /\ GetGroupMasterGroup(q, h) = GroupOf(m, S)

\* a completed Create in which some member's local group number differs from
\* the group's number in the master
C4_Witness ==
    /\ CreateDone
    /\ \E p \in Procs : \E g \in GroupIds(p) :
          /\ GetGroupSize(p, g) >= 2
          /\ ~IAmMaster(p, g)
          /\ GetGroupMasterGroup(p, g) # g

\* the membership sets rank p supplies to Create, whatever the order
SuppliedSets(p) ==
    LET mine == LocalItems(items, revOdd, p)
    IN  {mine[i] : i \in 1..Len(mine)}

C6_GroupZeroLocal ==
    \A p \in Procs :
        ByCreate(p) =>
            /\ GetGroupSize(p, 0) = 1
            /\ GetGroupMaster(p, 0) = 0
            /\ IAmMaster(p, 0)
            /\ GetNeighborRank(p, 0) = MyRank(p)

\* Create completed on a rank that has a lower-ranked neighbor, a group it
\* does not master, and an item shared with nobody
C6_Witness ==
    /\ CreateDone
    /\ \E p \in Procs :
          /\ \E g \in GroupIds(p) : \E q \in GroupRanks(p, g) : q < p
          /\ \E i \in 1..Len(items) : items[i] = {p}
          /\ NGroups(p) >= 2

(***************************************************************************)
(* The neighbor table                                                      *)
(***************************************************************************)
NeighborIds(p) == 0 .. (GetNumNeighbors(p) - 1)

\* the remote ranks that share an item with rank p
Sharers(p) == {q \in Procs \ {p} : \E i \in 1..Len(items) : {p, q} \subseteq items[i]}

\* C18: in every topology produced by Create the table from neighbor ids to
\* ranks is a bijection: neighbor 0 is the local rank, no rank has two
\* neighbor ids, and a remote rank has a neighbor id exactly when it belongs
\* to one of the local groups, that is when it shares an item with the local
\* rank.
C18_NeighborBijection ==
    \A p \in Procs :
        ByCreate(p) =>
            /\ GetNumNeighbors(p) >= 1
            /\ GetNeighborRank(p, 0) = MyRank(p)
            /\ \A i, j \in NeighborIds(p) :
                  GetNeighborRank(p, i) = GetNeighborRank(p, j) => i = j
            /\ \A q \in Procs \ {p} :
                  /\ (\E i \in NeighborIds(p) : GetNeighborRank(p, i) = q)
                        <=> (\E g \in GroupIds(p) : q \in groups[p][g + 1])
                  /\ (\E i \in NeighborIds(p) : GetNeighborRank(p, i) = q)
                        <=> q \in Sharers(p)
            /\ \A g \in GroupIds(p) :
                  GroupRanks(p, g) = groups[p][g + 1]

\* Create completed on a rank whose neighbor belongs to two of its groups,
\* and which has every other rank as a neighbor
C18_Witness ==
    /\ CreateDone
    /\ \E p \in Procs :
          /\ GetNumNeighbors(p) = NP
          /\ \E q \in Procs \ {p} : \E g, h \in GroupIds(p) :
                g # h /\ q \in GroupRanks(p, g) /\ q \in GroupRanks(p, h)

(***************************************************************************)
(* GroupCommunicator                                                       *)
(*                                                                         *)
(* Every rank owns one communicator over the completed topology.  The      *)
(* ranks all perform the same collective, round after round; a rank may    *)
(* wrongly call a Begin while its operation is still in flight.            *)
(***************************************************************************)
Kinds == {"bcast", "reduce"}
Ops == {"Sum", "Min", "Max", "BitOR"}

\* comm_lock: 0 - no lock, 1 - locked for Bcast, 2 - locked for Reduce
LockNone == 0
LockForBcastNone(k) == IF k = "bcast" THEN 0 ELSE 2
LockFor(k) == IF k = "bcast" THEN 1 ELSE 2

RECURSIVE SumSeq(_)
SumSeq(s) == IF s = << >> THEN 0 ELSE Head(s) + SumSeq(Tail(s))

\* the entries of s whose index is not in I
DropIdx(s, I) ==
    LET keep == SortedSeq((1..Len(s)) \ I)
    IN  [j \in 1..Len(keep) |-> s[keep[j]]]

\* the membership set of each local item of rank p: item 0 is private, the
\* others are the shared items in the order p visits them
LDofSets(p) == << {p} >> \o LocalItems(items, revOdd, p)
\* the caller's ldof_group array
LDofGroup(p) == [j \in 1..Len(LDofSets(p)) |-> Lookup(groups[p], LDofSets(p)[j])]

\* Create(ldof_group): row g lists the items of group g in increasing order;
\* the row of the local group 0 is empty
GroupLDofTable(lg, ng) ==
    [g1 \in 1..ng |->
        IF g1 = 1 THEN << >>
        ELSE SortedSeq({j - 1 : j \in {i \in DOMAIN lg : lg[i] = g1 - 1}})]

RowSize(p, g) == Len(group_ldof[p][g + 1])
\* group_ltdof.RowSize(g)
LTRowSize(p, g) == Len(group_ltdof[p][g + 1])
\* group_ldof.GetI()[g]
RowStart(p, g) == SumSeq([h \in 1..g |-> Len(group_ldof[p][h])])

\* the caller's ldof_ltdof array: the true items are the items of the groups
\* the rank masters, numbered in order; the others have -1
LDofLTDof(p) ==
    LET lg == LDofGroup(p)
    IN  [j \in 1..Len(lg) |->
            IF IAmMaster(p, lg[j])
            THEN Cardinality({i \in 1..(j - 1) : IAmMaster(p, lg[i])})
            ELSE -1]

\* SetLTDofTable(ldof_ltdof): a row per group the rank masters, empty for the
\* others and for group 0
GroupLTDofTable(p, ll) ==
    [g1 \in 1..NGroups(p) |->
        IF g1 > 1 /\ IAmMaster(p, g1 - 1)
        THEN [j \in 1..Len(group_ldof[p][g1]) |-> ll[group_ldof[p][g1][j] + 1]]
        ELSE << >>]

\* position in the local array of entry j of group g (arrays are 1-based
\* here): layout 0 indexes all items, layout 1 the shared items only,
\* layout 2 the true items
IndexNoShift(p, g, lay, j) ==
    IF lay = 1 THEN j
    ELSE IF lay = 2 THEN group_ltdof[p][g + 1][j] + 1
    ELSE group_ldof[p][g + 1][j] + 1
Index(p, g, lay, j) ==
    IF lay = 1 THEN RowStart(p, g) + j
    ELSE IF lay = 2 THEN group_ltdof[p][g + 1][j] + 1
    ELSE group_ldof[p][g + 1][j] + 1

ArrayLen(p, lay) ==
    IF lay = 1 THEN RowStart(p, NGroups(p))
    ELSE IF lay = 2 THEN Cardinality({j \in DOMAIN LDofLTDof(p) : LDofLTDof(p)[j] >= 0})
    ELSE Len(LDofSets(p))

\* the values the caller holds before the first round: distinct over ranks
\* and items, not monotone in the rank
ValStride == MaxItems + 2
InitArray(p, lay) ==
    [i \in 1..ArrayLen(p, lay) |-> ((NP - p) % NP) * ValStride + i]

CopyGroupToBuffer(ld, p, g, lay) ==
    [j \in 1..(IF lay = 2 THEN LTRowSize(p, g) ELSE RowSize(p, g)) |->
        ld[Index(p, g, lay, j)]]

CopyGroupFromBufferFront(seg, ld, p, g, lay) ==
    [i \in DOMAIN ld |-> IF i <= Len(seg) THEN seg[i] ELSE ld[i]]
CopyGroupFromBuffer(seg, ld, p, g, lay) ==
    [i \in DOMAIN ld |->
        IF \E j \in 1..RowSize(p, g) : Index(p, g, lay, j) = i
        THEN seg[CHOOSE j \in 1..RowSize(p, g) : Index(p, g, lay, j) = i]
        ELSE ld[i]]

RECURSIVE BitOr(_, _)
BitOr(a, b) ==
    IF a = 0 THEN b
    ELSE IF b = 0 THEN a
    ELSE (IF a % 2 = 1 \/ b % 2 = 1 THEN 1 ELSE 0) + 2 * BitOr(a \div 2, b \div 2)

Combine(op, a, b) ==
    CASE op = "Sum" -> a + b
      [] op = "Min" -> IF b < a THEN b ELSE a
      [] op = "Max" -> IF b > a THEN b ELSE a
      [] op = "BitOR" -> BitOr(a, b)

\* struct OpData { int nldofs, nb, *ldofs; T *ldata, *buf; }
OpDataOneBuffer(nldofs, nb, ldofs, ld, buf) ==
    [nldofs |-> nldofs, nb |-> 1, ldofs |-> ldofs, ldata |-> ld, buf |-> buf]
OpData(nldofs, nb, ldofs, ld, buf) ==
    [nldofs |-> nldofs, nb |-> nb, ldofs |-> ldofs, ldata |-> ld, buf |-> buf]

RECURSIVE FoldSlots(_, _, _, _, _)
\* data = ldata[ldofs[i]]; for j < nb: data = data (op) buf[j*nldofs + i]
FoldSlots(op, opd, i, j, acc) ==
    IF j >= opd.nb THEN acc
    ELSE FoldSlots(op, opd, i, j + 1, Combine(op, acc, opd.buf[j * opd.nldofs + i]))

\* Sum, Min, Max, BitOR applied to one group: the array after the call
ApplyOp(op, opd) ==
    [x \in DOMAIN opd.ldata |->
        IF \E i \in 1..opd.nldofs : opd.ldofs[i] + 1 = x
        THEN FoldSlots(op, opd, CHOOSE i \in 1..opd.nldofs : opd.ldofs[i] + 1 = x,
                       0, opd.ldata[x])
        ELSE opd.ldata[x]]

ReduceGroupFromBuffer(seg, ld, p, g, lay, op) ==
    ApplyOp(op, OpData(RowSize(p, g), 1, group_ldof[p][g + 1], ld, seg))

\* ---- Finalize(): buffer size and, by neighbor, the aggregation tables
Slots(p, g) == IF IAmMaster(p, g) THEN GetGroupSize(p, g) - 1 ELSE 1
BufSize(p) == SumSeq([g \in 1..(NGroups(p) - 1) |-> RowSize(p, g) * Slots(p, g)])

RECURSIVE SortByMGroup(_, _)
SortByMGroup(p, S) ==
    IF S = {} THEN << >>
    ELSE LET g == CHOOSE g \in S :
                    \A h \in S : GetGroupMasterGroup(p, g) <= GetGroupMasterGroup(p, h)
         IN  << g >> \o SortByMGroup(p, S \ {g})

\* groups with items that p masters and neighbor nbr belongs to
NbrSendGroups(p, nbr) ==
    SortedSeq({g \in 1..(NGroups(p) - 1) :
                  /\ RowSize(p, g) > 0
                  /\ IAmMaster(p, g)
                  /\ \E k \in 1..GetGroupSize(p, g) : GetGroup(p, g)[k] = nbr})
\* groups with items that neighbor nbr masters, in the master's order
NbrRecvGroups(p, nbr) ==
    SortByMGroup(p, {g \in 1..(NGroups(p) - 1) :
                        /\ RowSize(p, g) > 0
                        /\ ~IAmMaster(p, g)
                        /\ GetGroupMaster(p, g) = nbr})
GroupsSize(p, gs) == SumSeq([i \in 1..Len(gs) |-> RowSize(p, gs[i])])

\* ---- the requests a Begin posts: marker -1 for a send, the group or the
\* neighbor for a receive; off and n place the segment in the buffer
Req(marker, peer, tag, off, n, grps) ==
    [marker |-> marker, peer |-> peer, tag |-> tag, off |-> off, n |-> n,
     grps |-> grps]

GOff(p, k, g) ==
    SumSeq([h \in 1..(g - 1) |->
               RowSize(p, h) * (IF k = "reduce" THEN Slots(p, h) ELSE 1)])

GroupReqs(p, k, g) ==
    LET n == RowSize(p, g)
        off == GOff(p, k, g)
        tag == << k, GetGroupMasterGroup(p, g) >>
        others == SelectSeq(GetGroup(p, g), LAMBDA x : x # 0)
    IN  IF n = 0 THEN << >>
        ELSE IF IAmMaster(p, g)
        THEN [s \in 1..Len(others) |->
                 IF k = "bcast"
                 THEN Req(-1, GetNeighborRank(p, others[s]), tag, off, n, << g >>)
                 ELSE Req(g, GetNeighborRank(p, others[s]), tag,
                          off + (s - 1) * n, n, << g >>)]
        ELSE << Req(IF k = "bcast" THEN g ELSE -1, GetGroupMasterRank(p, g), tag,
                    off, n, << g >>) >>

NOff(p, nbr) ==
    SumSeq([m \in 1..(nbr - 1) |->
               GroupsSize(p, NbrSendGroups(p, m)) + GroupsSize(p, NbrRecvGroups(p, m))])

NbrReqs(p, k, nbr) ==
    LET snd == IF k = "bcast" THEN NbrSendGroups(p, nbr) ELSE NbrRecvGroups(p, nbr)
        rcv == IF k = "bcast" THEN NbrRecvGroups(p, nbr) ELSE NbrSendGroups(p, nbr)
        off == NOff(p, nbr)
        tag == << k, 0 >>
        rank == GetNeighborRank(p, nbr)
    IN  (IF snd = << >> THEN << >>
         ELSE << Req(-1, rank, tag, off, GroupsSize(p, snd), snd) >>)
        \o
        (IF rcv = << >> THEN << >>
         ELSE << Req(nbr, rank, tag, off + GroupsSize(p, snd), GroupsSize(p, rcv), rcv) >>)

Requests(p, k) ==
    IF mode = "byGroup"
    THEN Flatten([g \in 1..(NGroups(p) - 1) |-> GroupReqs(p, k, g)])
    ELSE Flatten([nbr \in 1..(GetNumNeighbors(p) - 1) |-> NbrReqs(p, k, nbr)])

IsSend(r) == r.marker = -1
IsRecv(r) == r.marker # -1

\* the groups of a segment packed one after the other
PackGroups(ld, p, grps, lay) ==
    Flatten([i \in 1..Len(grps) |-> CopyGroupToBuffer(ld, p, grps[i], lay)])

\* a broadcast by group at layout 1 sends from and receives into the array
UsesBuf(k) == ~(k = "bcast" /\ mode = "byGroup" /\ layout = 1)
InLayout(k) == IF k = "bcast" THEN layout ELSE 0

RECURSIVE PostSends(_, _, _, _, _)
PostSends(net, p, sends, ld, lay) ==
    IF sends = << >> THEN net
    ELSE LET r == Head(sends)
             m == [tag |-> r.tag, data |-> PackGroups(ld, p, r.grps, lay)]
         IN  PostSends([net EXCEPT ![p][r.peer] = Append(@, m)],
                       p, Tail(sends), ld, lay)

\* the buffer after the segment of each request rs[i] is written with segs[i]
WriteSegs(buf, rs, segs) ==
    [x \in DOMAIN buf |->
        IF \E i \in 1..Len(rs) : rs[i].off < x /\ x <= rs[i].off + rs[i].n
        THEN LET i == CHOOSE i \in 1..Len(rs) : rs[i].off < x /\ x <= rs[i].off + rs[i].n
             IN  segs[i][x - rs[i].off]
        ELSE buf[x]]

\* ---- the transport: a receive matches the first message of its source
\* that carries its tag
MatchIdx(p, r) ==
    LET q == cnet[r.peer][p]
    IN  IF \E i \in 1..Len(q) : q[i].tag = r.tag
        THEN CHOOSE i \in 1..Len(q) :
                 q[i].tag = r.tag /\ \A j \in 1..(i - 1) : q[j].tag # r.tag
        ELSE 0
Msg(p, r) == cnet[r.peer][p][MatchIdx(p, r)].data
Recvs(p) == SelectSeq(requests[p], IsRecv)
Perms(n) == {f \in [1..n -> 1..n] : \A i, j \in 1..n : f[i] = f[j] => i = j}

\* how many times each (group, source rank) pair was unpacked or combined
AsBag(s) ==
    [x \in {s[i] : i \in DOMAIN s} |-> Cardinality({i \in DOMAIN s : s[i] = x})]

RECURSIVE UnpackGroups(_, _, _, _, _, _)
\* the groups of a received segment, one after the other
UnpackGroups(seg, ld, p, grps, k, op) ==
    IF grps = << >> THEN ld
    ELSE LET g == Head(grps)
             n == RowSize(p, g)
             part == SubSeq(seg, 1, n)
         IN  UnpackGroups(SubSeq(seg, n + 1, Len(seg)),
                          IF k = "bcast"
                          THEN CopyGroupFromBuffer(part, ld, p, g, layout)
                          ELSE ReduceGroupFromBuffer(part, ld, p, g, layout, op),
                          p, Tail(grps), k, op)

\* the sources of the receives posted for group g
GroupSources(p, g) ==
    LET rs == SelectSeq(Recvs(p), LAMBDA r : r.marker = g)
    IN  [i \in 1..Len(rs) |-> << g, rs[i].peer >>]

RECURSIVE Drain(_, _, _, _, _, _)
\* End: the receives rs complete in this order.  A broadcast unpacks each as
\* it completes; a reduction by group combines a group when the last of its
\* receives completes; a reduction by neighbor combines segment by segment.
Drain(p, k, op, buf, rs, st) ==
    IF rs = << >> THEN st
    ELSE LET r == Head(rs)
         IN  IF k = "reduce" /\ mode = "byGroup"
             THEN LET g == r.marker
                      left == [st.left EXCEPT ![g] = @ - 1]
                      n == RowSize(p, g)
                      nb == GetGroupSize(p, g) - 1
                      base == GOff(p, k, g)
                  IN  IF left[g] # 0
                      THEN Drain(p, k, op, buf, Tail(rs), [st EXCEPT !.left = left])
                      ELSE Drain(p, k, op, buf, Tail(rs),
                             [ld |-> ApplyOp(op, OpData(n, nb, group_ldof[p][g + 1], st.ld,
                                                 SubSeq(buf, base + 1, base + n * nb))),
                              left |-> left,
                              applied |-> st.applied \o GroupSources(p, g)])
             ELSE Drain(p, k, op, buf, Tail(rs),
                    [ld |-> UnpackGroups(Msg(p, r), st.ld, p, r.grps, k, op),
                     left |-> st.left,
                     applied |-> st.applied \o
                                 [i \in 1..Len(r.grps) |-> << r.grps[i], r.peer >>]])

\* the topology of a completed GroupTopology::Create
InitCreated ==
    /\ VMIdle
    /\ items \in UNION {[1..n -> ItemSets] : n \in 0..MaxItems}
    /\ revOdd \in (IF Len(items) >= 2 THEN BOOLEAN ELSE {FALSE})
    /\ tpc = [p \in Procs |-> "done"]
    /\ groups = [p \in Procs |-> CallerGroups(items, revOdd, p)]
    /\ group_lproc = [p \in Procs |-> GroupLProc(groups[p])]
    /\ groupmaster_lproc = [p \in Procs |-> GroupMasterLProc(groups[p])]
    /\ lproc_proc = [p \in Procs |-> LProcProc(groups[p])]
    /\ group_mgroup = [p \in Procs |->
           [i \in 1..Len(groups[p]) |->
               Lookup(groups[PickElementInSet(groups[p][i])], groups[p][i])]]
    /\ recv_counter = [p \in Procs |-> 0]
    /\ tchan = EmptyChan
    /\ terror = [p \in Procs |-> FALSE]

\* not inside a fused wrapper
NotInCall == [fused |-> "none", todo |-> << >>]

InitComm ==
    /\ InitCreated
    /\ mode \in {"byGroup", "byNeighbor"}
    /\ kind \in Kinds
    /\ layout \in (IF kind = "bcast" THEN {0, 1} ELSE {0})
    /\ redop \in (IF kind = "reduce" THEN Ops ELSE {"none"})
    /\ group_ldof = [p \in Procs |-> GroupLDofTable(LDofGroup(p), NGroups(p))]
    /\ group_ltdof = [p \in Procs |-> [g1 \in 1..NGroups(p) |-> << >>]]
    /\ alive = [p \in Procs |-> TRUE]
    /\ cpc = [p \in Procs |-> NotInCall]
    /\ ldata2 = [p \in Procs |-> [i \in 1..ArrayLen(p, layout) |-> 0]]
    /\ pbuf = [p \in Procs |-> << >>]
    /\ group_buf = [p \in Procs |-> [x \in 1..BufSize(p) |-> 0]]
    /\ requests = [p \in Procs |-> << >>]
    /\ comm_lock = [p \in Procs |-> LockNone]
    /\ cfatal = [p \in Procs |-> FALSE]
    /\ ldata = [p \in Procs |-> InitArray(p, layout)]
    /\ cnet = EmptyChan
    /\ started = [p \in Procs |-> 0]
    /\ ended = [p \in Procs |-> 0]
    /\ begin_log = [p \in Procs |-> << >>]
    /\ applied = [p \in Procs |-> << >>]
    /\ clast = [p \in Procs |-> NoCall]

BeginName(k) == IF k = "bcast" THEN "BcastBegin" ELSE "ReduceBegin"
EndName(k) == IF k = "bcast" THEN "BcastEnd" ELSE "ReduceEnd"

\* BcastBegin / ReduceBegin: fatal when the object is in use; otherwise pack,
\* send, post the receives and take the lock
BeginOp(p, k) ==
    /\ alive[p]
    /\ ~cfatal[p]
    /\ IF comm_lock[p] # LockNone
       THEN /\ cfatal' = [cfatal EXCEPT ![p] = TRUE]
            /\ clast' = [clast EXCEPT ![p] =
                   [op |-> BeginName(k), status |-> "fatal",
                    lock_before |-> comm_lock[p],
                    requests |-> requests[p], group_buf |-> group_buf[p]]]
            /\ UNCHANGED << group_buf, requests, comm_lock, ldata, cnet, started,
                            ended, begin_log, applied >>
       ELSE /\ kind = k
            /\ started[p] < MaxRounds
            /\ LET reqs == Requests(p, k)
                   sends == SelectSeq(reqs, IsSend)
                   lay == InLayout(k)
               IN  /\ requests' = [requests EXCEPT ![p] = reqs]
                   /\ group_buf' = [group_buf EXCEPT ![p] =
                          IF UsesBuf(k)
                          THEN WriteSegs(@, sends,
                                   [i \in 1..Len(sends) |->
                                       PackGroups(ldata[p], p, sends[i].grps, lay)])
                          ELSE @]
                   /\ cnet' = PostSends(cnet, p, sends, ldata[p], lay)
            /\ comm_lock' = [comm_lock EXCEPT ![p] = LockFor(k)]
            /\ started' = [started EXCEPT ![p] = @ + 1]
            /\ begin_log' = [begin_log EXCEPT ![p] = Append(@, ldata[p])]
            /\ clast' = [clast EXCEPT ![p] =
                   [op |-> BeginName(k), status |-> "ok", lock_before |-> LockNone]]
            /\ UNCHANGED << cfatal, ldata, ended, applied >>
    /\ UNCHANGED << topoVars, vmVars, mode, kind, layout, redop, group_ldof,
                    group_ltdof, alive, ldata2, pbuf >>

\* BcastEnd / ReduceEnd: wait for every request, unpack or combine what was
\* received, release the lock
EndOp(p, k, op) ==
    /\ alive[p]
    /\ ~cfatal[p]
    /\ comm_lock[p] # LockNone
    /\ comm_lock[p] = LockFor(k)
    /\ op = redop
    /\ LET recvs == Recvs(p)
       IN  /\ \A i \in 1..Len(recvs) : MatchIdx(p, recvs[i]) # 0
           /\ \E ord \in Perms(Len(recvs)) :
                LET rs == IF k = "reduce" /\ mode = "byNeighbor" THEN recvs
                          ELSE [i \in 1..Len(recvs) |-> recvs[ord[i]]]
                    full == IF UsesBuf(k)
                            THEN WriteSegs(group_buf[p], recvs,
                                     [i \in 1..Len(recvs) |-> Msg(p, recvs[i])])
                            ELSE group_buf[p]
                    st == Drain(p, k, op, full, rs,
                              [ld |-> ldata[p],
                               left |-> [g \in 1..(NGroups(p) - 1) |->
                                            IF IAmMaster(p, g)
                                            THEN GetGroupSize(p, g) - 1 ELSE 0],
                               applied |-> << >>])
                IN  /\ ldata' = [ldata EXCEPT ![p] = st.ld]
                    /\ group_buf' = [group_buf EXCEPT ![p] = full]
                    /\ applied' = [applied EXCEPT ![p] = AsBag(st.applied)]
           /\ cnet' = [s \in Procs |-> [d \in Procs |->
                         IF d = p
                         THEN DropIdx(cnet[s][d],
                                  {MatchIdx(p, recvs[i]) :
                                      i \in {j \in 1..Len(recvs) : recvs[j].peer = s}})
                         ELSE cnet[s][d]]]
    /\ requests' = [requests EXCEPT ![p] = << >>]
    /\ comm_lock' = [comm_lock EXCEPT ![p] = LockNone]
    /\ ended' = [ended EXCEPT ![p] = @ + 1]
    /\ clast' = [clast EXCEPT ![p] = [op |-> EndName(k), status |-> "ok", redop |-> op,
                                      lock_before |-> comm_lock[p]]]
    /\ UNCHANGED << cfatal, started, begin_log >>
    /\ UNCHANGED << topoVars, vmVars, mode, kind, layout, redop, group_ldof,
                    group_ltdof, alive, ldata2, pbuf >>

\* the split-phase calls, made outside the fused wrappers
SplitCall(p) == cpc[p].todo = << >> /\ cpc' = [cpc EXCEPT ![p] = NotInCall]
BcastBegin(p) == SplitCall(p) /\ BeginOp(p, "bcast")
BcastEnd(p) == SplitCall(p) /\ EndOp(p, "bcast", redop)
ReduceBegin(p) == SplitCall(p) /\ BeginOp(p, "reduce")
ReduceEnd(p, op) == SplitCall(p) /\ EndOp(p, "reduce", op)

NextComm ==
    \/ \E p \in Procs : BcastBegin(p)
    \/ \E p \in Procs : BcastEnd(p)
    \/ \E p \in Procs : ReduceBegin(p)
    \/ \E p \in Procs : ReduceEnd(p, redop)

SpecComm == InitComm /\ [][NextComm]_vars

(***************************************************************************)
(* Claims about GroupCommunicator                                          *)
(***************************************************************************)
InFlight(p) == started[p] - ended[p]

\* C1: on one communicator at most one operation is in flight.  A BcastBegin
\* or ReduceBegin called while the lock is not idle ends in the fatal error
\* and starts nothing: the requests and the buffer are left as they were.  A
\* Begin on an idle object takes the lock of its operation.
C1_LockExclusive ==
    \A p \in Procs :
        /\ InFlight(p) \in {0, 1}
        /\ InFlight(p) = 1 <=> comm_lock[p] # LockNone
        /\ clast[p].op \in {"BcastBegin", "ReduceBegin"} =>
              IF clast[p].lock_before # LockNone
              THEN /\ clast[p].status = "fatal"
                   /\ cfatal[p]
                   /\ comm_lock[p] = clast[p].lock_before
                   /\ requests[p] = clast[p].requests
                   /\ group_buf[p] = clast[p].group_buf
              ELSE /\ clast[p].status = "ok"
                   /\ ~cfatal[p]
                   /\ comm_lock[p] = (IF clast[p].op = "BcastBegin" THEN 1 ELSE 2)
        /\ cfatal[p] => clast[p].status = "fatal"

\* BcastBegin; BcastBegin without a BcastEnd in between, on a rank with
\* requests outstanding
C1_Witness ==
    \E p \in Procs :
        /\ clast[p].op = "BcastBegin"
        /\ clast[p].status = "fatal"
        /\ clast[p].lock_before = 1
        /\ requests[p] # << >>
        /\ mode = "byGroup"

\* the master of a group by its membership set, and the number of the set
\* in the list of rank q
SetMaster(S) == PickElementInSet(S)
GroupAt(q, S) == Lookup(groups[q], S)
SharedGroups(p) == 1 .. (Len(groups[p]) - 1)

\* C2: after its BcastEnd of round n, a rank holds at the items of every
\* group it does not master the values the master of the group held at its
\* own BcastBegin of round n, and it has unpacked the master's data for each
\* such group exactly once and nothing else.
C2_BcastDelivery ==
    \A p \in Procs :
        clast[p].op = "BcastEnd" =>
            LET n == ended[p]
                mine == {g \in SharedGroups(p) : SetMaster(groups[p][g + 1]) # p}
            IN  /\ \A g \in mine :
                      LET S == groups[p][g + 1]
                          m == SetMaster(S)
                      IN  /\ Len(begin_log[m]) >= n
                          /\ RowSize(p, g) = RowSize(m, GroupAt(m, S))
                          /\ \A j \in 1..RowSize(p, g) :
                                ldata[p][Index(p, g, layout, j)] =
                                begin_log[m][n][Index(m, GroupAt(m, S), layout, j)]
                /\ applied[p] =
                      [x \in {<< g, SetMaster(groups[p][g + 1]) >> : g \in mine} |-> 1]

\* a rank has completed its last broadcast by neighbor, in which it received
\* two groups, and its array changed
C2_Witness ==
    \E p \in Procs :
        /\ clast[p].op = "BcastEnd"
        /\ ended[p] = MaxRounds
        /\ mode = "byNeighbor"
        /\ Cardinality(DOMAIN applied[p]) >= 2
        /\ ldata[p] # begin_log[p][1]

RECURSIVE FoldRanks(_, _, _, _, _)
\* the fold under op of the values the ranks rs contributed in round n to
\* entry j of the group with membership set S
FoldRanks(op, rs, S, n, j) ==
    LET r == rs[Len(rs)]
        v == begin_log[r][n][Index(r, GroupAt(r, S), 0, j)]
    IN  IF Len(rs) = 1 THEN v
        ELSE Combine(op, FoldRanks(op, SubSeq(rs, 1, Len(rs) - 1), S, n, j), v)

\* C3: after its ReduceEnd of round n with operator op, a rank holds at the
\* items of every group it masters the fold under op of the values all the
\* members of the group (itself included) held at their ReduceBegin of round
\* n, whatever the order in which the members' messages completed, and it has
\* combined each other member's contribution exactly once.
C3_ReduceFold ==
    \A p \in Procs :
        clast[p].op = "ReduceEnd" =>
            LET n == ended[p]
                op == clast[p].redop
                mine == {g \in SharedGroups(p) : SetMaster(groups[p][g + 1]) = p}
            IN  /\ op \in Ops
                /\ \A g \in mine :
                      LET S == groups[p][g + 1]
                      IN  /\ \A r \in S : Len(begin_log[r]) >= n
                          /\ \A j \in 1..RowSize(p, g) :
                                ldata[p][Index(p, g, 0, j)] =
                                FoldRanks(op, SortedSeq(S), S, n, j)
                /\ applied[p] =
                      [x \in {<< g, r >> : g \in mine, r \in Procs} \cap
                             {y \in SharedGroups(p) \X Procs :
                                  y[2] \in groups[p][y[1] + 1] /\ y[2] # p} |-> 1]

\* a master has completed its last Sum reduction by group over a group of
\* three ranks
C3_Witness ==
    \E p \in Procs :
        /\ clast[p].op = "ReduceEnd"
        /\ clast[p].redop = "Sum"
        /\ ended[p] = MaxRounds
        /\ mode = "byGroup"
        /\ \E g \in SharedGroups(p) :
              /\ SetMaster(groups[p][g + 1]) = p
              /\ Cardinality(groups[p][g + 1]) >= 3
              /\ RowSize(p, g) >= 2

(***************************************************************************)
(* The collective with conforming callers                                  *)
(*                                                                         *)
(* Every rank calls Begin on its idle communicator and then End, round     *)
(* after round.  A send completes at once when the transport buffers it    *)
(* and otherwise when the peer has posted the matching receive, which it   *)
(* does in its own Begin of the same round; End returns when the sends and *)
(* the receives are complete.  Fairness is assumed of the calls and of the *)
(* unbuffered completion only.                                             *)
(***************************************************************************)
\* the peers of the sends of rank p have posted their receives
SendsMatched(p) ==
    \A i \in 1..Len(requests[p]) :
        IsSend(requests[p][i]) => started[requests[p][i].peer] >= started[p]

CallBegin(p) == comm_lock[p] = LockNone /\ BeginOp(p, kind) /\ UNCHANGED cpc
CallEnd(p) == EndOp(p, kind, redop) /\ UNCHANGED cpc

NextCollective ==
    \/ \E p \in Procs : CallBegin(p)
    \/ \E p \in Procs : CallEnd(p)

\* when CallBegin(p) and CallEnd(p) can be taken
BeginReady(p) == alive[p] /\ ~cfatal[p] /\ comm_lock[p] = LockNone /\ started[p] < MaxRounds
EndReady(p) ==
    /\ alive[p]
    /\ ~cfatal[p]
    /\ comm_lock[p] # LockNone
    /\ comm_lock[p] = LockFor(kind)
    /\ \A i \in 1..Len(Recvs(p)) : MatchIdx(p, Recvs(p)[i]) # 0

\* the steps of the collective that count a Begin and an End of rank p: a
\* CallBegin(p), and a CallEnd(p) none of whose sends was buffered
BeginReturns(p) == BeginReady(p) /\ started' = [started EXCEPT ![p] = @ + 1]
EndReturns(p) ==
    EndReady(p) /\ SendsMatched(p) /\ ended' = [ended EXCEPT ![p] = @ + 1]

SpecCommFair ==
    /\ InitComm
    /\ [][NextCollective]_vars
    /\ \A p \in Procs : WF_started(BeginReturns(p)) /\ WF_ended(EndReturns(p))

\* C11: when every rank calls Begin and then End of the collective, in either
\* mode and in any relative order, every rank that has begun an operation
\* eventually returns from its End with the lock idle and no request left,
\* and every rank completes every round.
C11_NoDeadlock ==
    /\ \A p \in Procs :
          (comm_lock[p] # LockNone) ~> (comm_lock[p] = LockNone /\ requests[p] = << >>)
    /\ <>(\A p \in Procs : ended[p] = MaxRounds /\ requests[p] = << >>)
    /\ [](\A p \in Procs : ~cfatal[p] /\ (comm_lock[p] = LockNone => requests[p] = << >>))

\* all ranks are through their last round, in which a rank both sent and
\* received
C11_Witness ==
    /\ \A p \in Procs : ended[p] = MaxRounds /\ comm_lock[p] = LockNone
    /\ \E p \in Procs :
          /\ DOMAIN applied[p] # {}
          /\ \E q \in Procs : q # p /\ \E x \in DOMAIN applied[q] : x[2] = p

(***************************************************************************)
(* The fused wrappers Bcast and Reduce                                     *)
(*                                                                         *)
(* A wrapper is the sequence of calls of its body.  The rank makes the     *)
(* first call when it enters the wrapper and the next ones as soon as they *)
(* can return; it makes no other call in between.                          *)
(***************************************************************************)
MaxFusedRounds == 1

Call(name, lay, op) == [call |-> name, layout |-> lay, op |-> op]

\* Bcast(ldata, layout) { BcastBegin(ldata, layout); BcastEnd(ldata, layout); }
BcastNoEnd(lay) == << Call("BcastBegin", lay, "none") >>
Bcast(lay) == << Call("BcastBegin", lay, "none"), Call("BcastEnd", lay, "none") >>
\* Bcast(ldata) { Bcast<T>(ldata, 0); }
Bcast1 == Bcast(0)
\* Reduce(ldata, Op) { ReduceBegin(ldata); ReduceEnd(ldata, 0, Op); }
Reduce(op) == << Call("ReduceBegin", 0, "none"), Call("ReduceEnd", 0, op) >>

\* one call of a body; the array handed to it has the layout the call names
DoCall(p, c) ==
    /\ c.layout = layout
    /\ CASE c.call = "BcastBegin" -> BeginOp(p, "bcast")
         [] c.call = "BcastEnd" -> EndOp(p, "bcast", redop)
         [] c.call = "ReduceBegin" -> BeginOp(p, "reduce")
         [] c.call = "ReduceEnd" -> EndOp(p, "reduce", c.op)

FusedEnter(p, name, body) ==
    /\ cpc[p].todo = << >>
    /\ comm_lock[p] # LockNone \/ started[p] < MaxFusedRounds
    /\ DoCall(p, Head(body))
    /\ cpc' = [cpc EXCEPT ![p] = [fused |-> name, todo |-> Tail(body),
                                  lock_before |-> comm_lock[p]]]

FusedContinue(p) ==
    /\ cpc[p].todo # << >>
    /\ DoCall(p, Head(cpc[p].todo))
    /\ cpc' = [cpc EXCEPT ![p].todo = Tail(@)]

\* the split-phase calls of a rank that follows the protocol
SplitBegin(p) ==
    /\ comm_lock[p] = LockNone
    /\ started[p] < MaxFusedRounds
    /\ BcastBegin(p) \/ ReduceBegin(p)
SplitEnd(p) == BcastEnd(p) \/ ReduceEnd(p, redop)

NextFused ==
    \/ \E p \in Procs : FusedEnter(p, "Bcast", Bcast(layout))
    \/ \E p \in Procs : FusedEnter(p, "Bcast1", Bcast1)
    \/ \E p \in Procs : FusedEnter(p, "Reduce", Reduce(redop))
    \/ \E p \in Procs : FusedContinue(p)
    \/ \E p \in Procs : SplitBegin(p)
    \/ \E p \in Procs : SplitEnd(p)

SpecFused == InitComm /\ [][NextFused]_vars

\* the last call of rank p was a fused wrapper
InFused(p) == cpc[p].fused # "none"

\* C12: a fused Bcast or Reduce is its Begin followed by its End on the same
\* array and layout (layout 0 for Bcast(ldata) and for Reduce).  Entered
\* with the lock idle it takes the lock of its operation, makes the End call
\* next and returns with the lock idle and no request left, and what it
\* delivers is what the split calls deliver; entered between another
\* operation's Begin and End it ends in the fatal error of its Begin and
\* changes nothing.
C12_FusedIsBeginEnd ==
    /\ \A p \in Procs :
          InFused(p) =>
              LET c == cpc[p]
                  k == IF c.fused = "Reduce" THEN "reduce" ELSE "bcast"
              IN  /\ c.fused = "Bcast1" => layout = 0
                  /\ c.fused = "Reduce" => layout = 0
                  /\ IF c.lock_before # LockNone
                     THEN /\ cfatal[p]
                          /\ clast[p].op = BeginName(k)
                          /\ clast[p].status = "fatal"
                          /\ comm_lock[p] = c.lock_before
                          /\ requests[p] = clast[p].requests
                          /\ group_buf[p] = clast[p].group_buf
                     ELSE /\ ~cfatal[p]
                          /\ k = kind
                          /\ IF c.todo # << >>
                             THEN /\ c.todo = << Call(EndName(k), layout,
                                                     IF k = "reduce" THEN redop ELSE "none") >>
                                  /\ clast[p].op = BeginName(k)
                                  /\ comm_lock[p] = LockFor(k)
                                  /\ InFlight(p) = 1
                             ELSE /\ clast[p].op = EndName(k)
                                  /\ comm_lock[p] = LockNone
                                  /\ requests[p] = << >>
                                  /\ InFlight(p) = 0
    /\ C2_BcastDelivery
    /\ C3_ReduceFold

\* a fused Reduce has returned on a master that combined a contribution
\* sent by a split ReduceBegin, and a fused Bcast was refused on a rank
\* between a split ReduceBegin and its ReduceEnd
C12_Witness ==
    /\ \E p \in Procs :
          /\ cpc[p] = [fused |-> "Reduce", todo |-> << >>, lock_before |-> LockNone]
          /\ clast[p].op = "ReduceEnd"
          /\ \E x \in DOMAIN applied[p] : ~InFused(x[2])
    /\ \E q \in Procs :
          /\ cpc[q].fused = "Bcast"
          /\ cpc[q].lock_before = 2
          /\ cfatal[q]

(***************************************************************************)
(* Packing and unpacking one group                                         *)
(*                                                                         *)
(* The caller keeps an array at one of the three layouts, packs a group of *)
(* it into a buffer and unpacks the buffer into a second array of the same *)
(* layout.  Layout 2 is used after SetLTDofTable and for the groups the    *)
(* rank masters.                                                           *)
(***************************************************************************)
Layouts == {0, 1, 2}

InitPack ==
    /\ InitCreated
    /\ mode = "byNeighbor"
    /\ kind = "none"
    /\ layout \in Layouts
    /\ redop = "none"
    /\ group_ldof = [p \in Procs |-> GroupLDofTable(LDofGroup(p), NGroups(p))]
    /\ group_ltdof = [p \in Procs |-> [g1 \in 1..NGroups(p) |-> << >>]]
    /\ alive = [p \in Procs |-> TRUE]
    /\ cpc = [p \in Procs |-> NotInCall]
    /\ ldata2 = [p \in Procs |-> [i \in 1..ArrayLen(p, layout) |-> 0]]
    /\ pbuf = [p \in Procs |-> << >>]
    /\ group_buf = [p \in Procs |-> [x \in 1..BufSize(p) |-> 0]]
    /\ requests = [p \in Procs |-> << >>]
    /\ comm_lock = [p \in Procs |-> LockNone]
    /\ cfatal = [p \in Procs |-> FALSE]
    /\ ldata = [p \in Procs |-> InitArray(p, layout)]
    /\ cnet = EmptyChan
    /\ started = [p \in Procs |-> 0]
    /\ ended = [p \in Procs |-> 0]
    /\ begin_log = [p \in Procs |-> << >>]
    /\ applied = [p \in Procs |-> << >>]
    /\ clast = [p \in Procs |-> NoCall]

\* the calls below leave everything but their output as it is
AuxFrame ==
    UNCHANGED << topoVars, vmVars, mode, kind, layout, redop, group_ldof, group_buf,
                 requests, comm_lock, cfatal, ldata, cnet, alive, cpc, started, ended,
                 begin_log, applied >>

SetLTDofTable(p) ==
    /\ alive[p] /\ ~cfatal[p]
    /\ cpc[p].todo = << >>
    /\ group_ltdof' = [group_ltdof EXCEPT ![p] = GroupLTDofTable(p, LDofLTDof(p))]
    /\ clast' = [clast EXCEPT ![p] =
           [op |-> "SetLTDofTable", lock_before |-> comm_lock[p]]]
    /\ UNCHANGED << ldata2, pbuf >>
    /\ AuxFrame

\* layout lay can be used for group g
LayoutUsable(p, g, lay) == lay = 2 => (IAmMaster(p, g) /\ LTRowSize(p, g) = RowSize(p, g))

\* buf = CopyGroupToBuffer(ldata, buf, g, layout)
PackCall(p, g) ==
    /\ alive[p] /\ ~cfatal[p]
    /\ cpc[p].todo = << >>
    /\ LayoutUsable(p, g, layout)
    /\ LET seg == CopyGroupToBuffer(ldata[p], p, g, layout)
       IN  /\ pbuf' = [pbuf EXCEPT ![p] = seg]
           /\ clast' = [clast EXCEPT ![p] =
                  [op |-> "CopyGroupToBuffer", group |-> g, advance |-> Len(seg),
                   lock_before |-> comm_lock[p]]]
    /\ UNCHANGED << group_ltdof, ldata2 >>
    /\ AuxFrame

\* buf = CopyGroupFromBuffer(buf, ldata2, g, layout), on the buffer that the
\* last call packed group g into
UnpackCall(p, g) ==
    /\ alive[p] /\ ~cfatal[p]
    /\ cpc[p].todo = << >>
    /\ clast[p].op = "CopyGroupToBuffer" /\ clast[p].group = g
    /\ LayoutUsable(p, g, layout)
    /\ ldata2' = [ldata2 EXCEPT ![p] = CopyGroupFromBuffer(pbuf[p], @, p, g, layout)]
    /\ clast' = [clast EXCEPT ![p] =
           [op |-> "CopyGroupFromBuffer", group |-> g, advance |-> RowSize(p, g),
            before |-> ldata2[p], lock_before |-> comm_lock[p]]]
    /\ UNCHANGED << group_ltdof, pbuf >>
    /\ AuxFrame

NextPack ==
    \/ \E p \in Procs : SetLTDofTable(p)
    \/ \E p \in Procs : \E g \in 1..(NGroups(p) - 1) : PackCall(p, g)
    \/ \E p \in Procs : \E g \in 1..(NGroups(p) - 1) : UnpackCall(p, g)

SpecPack == InitPack /\ [][NextPack]_vars

\* the positions in the array of the slice of group g, in order, by the
\* layout contract: the listed items at layout 0, the contiguous range of
\* the group among the shared items at layout 1, the listed true items at
\* layout 2
SliceOf(p, g, lay) ==
    LET I == [h \in 0..NGroups(p) |-> SumSeq([x \in 1..h |-> Len(group_ldof[p][x])])]
    IN  CASE lay = 0 -> [j \in 1..(I[g + 1] - I[g]) |-> group_ldof[p][g + 1][j] + 1]
          [] lay = 1 -> [j \in 1..(I[g + 1] - I[g]) |-> I[g] + j]
          [] lay = 2 -> [j \in 1..Len(group_ltdof[p][g + 1]) |-> group_ltdof[p][g + 1][j] + 1]

\* C13: CopyGroupToBuffer puts into the buffer the values of the slice of
\* the group, in order, and advances by the number of items of the group;
\* CopyGroupFromBuffer on that buffer then makes the second array equal to
\* the first at every position of the slice, leaves its other positions as
\* they were, and advances by the same number.
C13_PackRoundTrip ==
    \A p \in Procs :
        /\ clast[p].op = "CopyGroupToBuffer" =>
              LET sl == SliceOf(p, clast[p].group, layout)
              IN  /\ clast[p].advance = Len(group_ldof[p][clast[p].group + 1])
                  /\ Len(pbuf[p]) = Len(sl)
                  /\ Len(sl) = clast[p].advance
                  /\ \A j \in 1..Len(sl) : pbuf[p][j] = ldata[p][sl[j]]
        /\ clast[p].op = "CopyGroupFromBuffer" =>
              LET sl == SliceOf(p, clast[p].group, layout)
              IN  /\ clast[p].advance = Len(group_ldof[p][clast[p].group + 1])
                  /\ Len(sl) = clast[p].advance
                  /\ DOMAIN ldata2[p] = DOMAIN ldata[p]
                  /\ \A j \in 1..Len(sl) :
                        /\ ldata2[p][sl[j]] = ldata[p][sl[j]]
                        /\ ldata2[p][sl[j]] = pbuf[p][j]
                  /\ \A i \in DOMAIN ldata2[p] :
                        (\A j \in 1..Len(sl) : sl[j] # i) =>
                            ldata2[p][i] = clast[p].before[i]

\* a rank has unpacked at layout 2 a group it masters whose items do not
\* start the array, and part of the second array is as it was
C13_Witness ==
    \E p \in Procs :
        /\ clast[p].op = "CopyGroupFromBuffer"
        /\ clast[p].advance >= 1
        /\ layout = 2
        /\ RowStart(p, clast[p].group) >= 1
        /\ \E i \in DOMAIN ldata2[p] : ldata2[p][i] = 0

(***************************************************************************)
(* What a broadcast leaves alone                                           *)
(***************************************************************************)
\* the positions of the array of rank p that belong, at layout lay, to the
\* groups another rank masters
ForeignSlice(p, lay) ==
    {Index(p, g, lay, j) : << g, j >> \in
        {x \in SharedGroups(p) \X (1..MaxItems) :
            x[2] <= RowSize(p, x[1]) /\ SetMaster(groups[p][x[1] + 1]) # p}}

\* C17: after BcastBegin and BcastEnd at layout 1 on the same array, the
\* items of every group the rank masters hold the values they had before
\* BcastBegin, and so does every position outside the slices of the groups
\* mastered by another rank.
C17_BcastMasterUnchanged ==
    \A p \in Procs :
        (clast[p].op = "BcastEnd" /\ layout = 1) =>
            LET before == begin_log[p][ended[p]]
            IN  /\ Len(ldata[p]) = Len(before)
                /\ \A g \in SharedGroups(p) :
                      SetMaster(groups[p][g + 1]) = p =>
                          \A j \in 1..RowSize(p, g) :
                              ldata[p][Index(p, g, 1, j)] = before[Index(p, g, 1, j)]
                /\ \A i \in DOMAIN ldata[p] :
                      i \notin ForeignSlice(p, 1) => ldata[p][i] = before[i]

\* a rank has completed a broadcast at layout 1 in which it sent a group it
\* masters and received another, whose slice changed
C17_Witness ==
    \E p \in Procs :
        /\ clast[p].op = "BcastEnd"
        /\ layout = 1
        /\ ldata[p] # begin_log[p][ended[p]]
        /\ \E g \in SharedGroups(p) :
              SetMaster(groups[p][g + 1]) = p /\ RowSize(p, g) >= 1
        /\ DOMAIN applied[p] # {}

(***************************************************************************)
(* RecvAll and a message from a rank outside the map                       *)
(***************************************************************************)
\* the RecvAll in progress has just stopped on the assertion on the source
RecvAllStopped == last.op = "RecvAll" /\ last.status = "fatal_assert"

\* C15: when RecvAll probes a message whose source is not a key of the map,
\* the call ends in a fatal error: the step that stops it leaves the map, the
\* pending messages and the count of messages still expected as they were;
\* no entry is ever added to the map, RecvAll never receives a message from a
\* rank outside the map, and the count is decremented once per message
\* received.
C15_RecvAllUnexpected ==
    /\ [][(vpc = "recvall" /\ vpc' = "fatal" /\ last'.status = "fatal_assert") =>
            /\ last'.rank \notin Keys
            /\ inbox[last'.rank] # << >>
            /\ UNCHANGED << rank_msg, inbox, recv_left, recv_steps >>]_vars
    /\ [][(vpc = "recvall" /\ vpc' # "fatal") =>
            \/ UNCHANGED << recv_left, recv_steps >>
            \/ /\ recv_left' = recv_left - 1
               /\ Len(recv_steps') = Len(recv_steps) + 1
               /\ recv_steps'[Len(recv_steps')].rank \in Keys]_vars
    /\ [][DOMAIN rank_msg' = DOMAIN rank_msg]_vars
    /\ [](\A i \in 1..Len(recv_steps) : recv_steps[i].rank \in Keys)
    /\ [](vpc = "recvall" => recv_left + Len(recv_steps) = Cardinality(Keys))

\* RecvAll over a map of one entry stopped on a message from the other rank
\* while the message of the entry's rank was pending too
C15_Witness ==
    /\ RecvAllStopped
    /\ vpc = "fatal"
    /\ Cardinality(Keys) = 1
    /\ recv_left = 1
    /\ last.rank \notin Keys
    /\ inbox[last.rank] # << >>
    /\ \E k \in Keys : inbox[k] # << >> /\ rank_msg[k].data = << >>

(***************************************************************************)
(* Probe, then receive                                                     *)
(***************************************************************************)
Probes == {"Probe", "IProbe"}

\* C16: Probe and IProbe leave the pending messages and the entries as they
\* are and report the source and the byte count of a pending message; IProbe
\* can always be called and returns false exactly when no message of the
\* class is pending; and a Recv or RecvDrop called with the source and size
\* of the probe just before it, whatever other ranks have sent in between,
\* receives a message of exactly size bytes sent by that source.
C16_ProbeThenRecv ==
    /\ [][(last'.op \in Probes /\ last' # last) =>
            /\ UNCHANGED << inbox, rank_msg, recv_left, sent_count >>
            /\ last'.flag = (\E r \in Peers : inbox[r] # << >>)
            /\ last'.flag =>
                  /\ inbox[last'.rank] # << >>
                  /\ last'.size = Len(Head(inbox[last'.rank]))]_vars
    /\ [](vpc = "idle" => ENABLED (IProbeNone \/ \E r \in Peers : IProbeSome(r)))
    /\ []((last.op \in {"Recv", "RecvDrop"} /\ last.after_probe) =>
            /\ last.status = "ok"
            /\ last.count = last.size
            /\ last.payload = Payload(last.rank, last.size)
            /\ last.op = "Recv" =>
                  /\ rank_msg[last.key].data = last.payload
                  /\ last.decoded = << last.payload >>)

\* a Recv after a probe received the older of two messages of different
\* lengths from one source, the second of which arrived after the probe or
\* before it and is still pending
C16_Witness ==
    /\ last.op = "Recv"
    /\ last.after_probe
    /\ last.status = "ok"
    /\ inbox[last.rank] # << >>
    /\ Len(Head(inbox[last.rank])) # last.size

(***************************************************************************)
(* The life of a GroupCommunicator                                         *)
(*                                                                         *)
(* Besides the split-phase calls of its collective a rank may call an End  *)
(* that does not match the state of the lock, the auxiliary methods, and   *)
(* the destructor.  The bodies of the End methods and of the destructor    *)
(* are not in the header, and nothing states what they do when the call    *)
(* does not fit the lock: such a call takes any of the possible outcomes.  *)
(***************************************************************************)
MaxLockRounds == 1
\* the ranks that make auxiliary calls
NAuxRanks == 1
AuxRanks == 1 .. NAuxRanks

\* how a call that does not fit the lock may end: with a fatal diagnostic,
\* or by returning
Outcomes == {"fatal", "returned"}

\* BcastEnd / ReduceEnd on an object that is not locked for that operation
\* (idle, or locked for the other one): the call is fatal, or it returns with
\* the lock as it was or released
EndUnmatched(p, k) ==
    /\ alive[p] /\ ~cfatal[p]
    /\ cpc[p].todo = << >>
    /\ comm_lock[p] # LockFor(k)
    /\ \E out \in Outcomes : \E lk \in {comm_lock[p], LockNone} :
          /\ out = "fatal" => lk = comm_lock[p]
          /\ cfatal' = [cfatal EXCEPT ![p] = (out = "fatal")]
          /\ comm_lock' = [comm_lock EXCEPT ![p] = lk]
          /\ clast' = [clast EXCEPT ![p] =
                 [op |-> EndName(k), status |-> out, lock_before |-> comm_lock[p]]]
    /\ UNCHANGED << group_ltdof, ldata2, pbuf >>
    /\ UNCHANGED << topoVars, vmVars, mode, kind, layout, redop, group_ldof, group_buf,
                    requests, ldata, cnet, alive, cpc, started, ended,
                    begin_log, applied >>

\* ~GroupCommunicator(): the buffer and the requests are released.  Between
\* a Begin and its End the destructor is fatal or releases them all the same.
DestroyComm(p) ==
    /\ alive[p] /\ ~cfatal[p]
    /\ cpc[p].todo = << >>
    /\ \E out \in Outcomes :
          /\ out = "fatal" => comm_lock[p] # LockNone
          /\ IF out = "fatal"
             THEN /\ cfatal' = [cfatal EXCEPT ![p] = TRUE]
                  /\ UNCHANGED << alive, group_buf, requests >>
             ELSE /\ alive' = [alive EXCEPT ![p] = FALSE]
                  /\ group_buf' = [group_buf EXCEPT ![p] = << >>]
                  /\ requests' = [requests EXCEPT ![p] = << >>]
                  /\ UNCHANGED cfatal
          /\ clast' = [clast EXCEPT ![p] =
                 [op |-> "Destroy", status |-> out, lock_before |-> comm_lock[p]]]
    /\ UNCHANGED << group_ltdof, ldata2, pbuf >>
    /\ UNCHANGED << topoVars, vmVars, mode, kind, layout, redop, group_ldof, comm_lock,
                    ldata, cnet, cpc, started, ended, begin_log, applied >>

\* PrintInfo(out) const
PrintInfo(p) ==
    /\ alive[p] /\ ~cfatal[p]
    /\ cpc[p].todo = << >>
    /\ clast' = [clast EXCEPT ![p] = [op |-> "PrintInfo", lock_before |-> comm_lock[p]]]
    /\ UNCHANGED << group_ltdof, ldata2, pbuf >>
    /\ AuxFrame

\* the scenario of three ranks: ranks 0 and 1 share item A, ranks 1 and 2
\* share item B
ScenarioItems == << {0, 1}, {1, 2} >>

\* the communicators of the scenario; the lock depends neither on the
\* operator nor on the mode nor on the layout
InitLock ==
    /\ InitComm
    /\ items = ScenarioItems
    /\ ~revOdd
    /\ mode = "byGroup"
    /\ layout = 0
    /\ redop \in {"none", "Sum"}

\* a Begin of either kind, on an idle object in its first rounds or on a
\* locked one
LockBegin(p) ==
    /\ comm_lock[p] # LockNone \/ started[p] < MaxLockRounds
    /\ BcastBegin(p) \/ ReduceBegin(p)

NextLock ==
    \/ \E p \in Procs : LockBegin(p)
    \/ \E p \in Procs : BcastEnd(p)
    \/ \E p \in Procs : ReduceEnd(p, redop)
    \/ \E p \in Procs : \E k \in Kinds : EndUnmatched(p, k)
    \/ \E p \in Procs : DestroyComm(p)
    \/ \E p \in AuxRanks : PrintInfo(p)
    \/ \E p \in AuxRanks : SetLTDofTable(p)
    \/ \E p \in AuxRanks : \E g \in 1..(NGroups(p) - 1) : PackCall(p, g)
    \/ \E p \in AuxRanks : \E g \in 1..(NGroups(p) - 1) : UnpackCall(p, g)

SpecLock == InitLock /\ [][NextLock]_vars

====
